---- MODULE Spec2Model ----
(***************************************************************************)
(* JSON-RPC dispatch of the Tailscale MCP server: the protocol codec       *)
(* (internal/mcp types), the server behind it (MCPServer), the tool        *)
(* registry (ToolRegistry) and the two transports that feed it, the line   *)
(* transport (StdioServer) and the request transport (HTTPServer).         *)
(***************************************************************************)
EXTENDS Integers, FiniteSets, Sequences, TLC

(***************************************************************************)
(* Bounds of the model.                                                    *)
(***************************************************************************)
\* numeric request ids range over 1..MaxId
MaxId == 1
\* each tool name exists in revisions 1..MaxRevisions (description and schema)
MaxRevisions == 2
\* a session of the line transport reads at most MaxLines lines
MaxLines == 3
\* a tool execution takes up to MaxTicks steps of time
MaxTicks == 2
\* ExecuteCommand is called with at most MaxArgs arguments
MaxArgs == 2
\* the clock of a command advances TickSeconds seconds at a time
TickSeconds == 10
\* the cap of a limitWriter ranges over 0..MaxLimit bytes, and the cap of
\* the output buffers of a command (10 MB in the source) is scaled to it
MaxLimit == 3
\* one Write call carries at most MaxChunk bytes
MaxChunk == 2
MaxInflight == 2
MaxEdits == 2
MaxCallers == 2
MaxWriters == 2
MaxStarts == 2

(***************************************************************************)
(* Protocol constants.                                                     *)
(***************************************************************************)
ProtocolVersion == "2024-11-05"

RequestTypeInitialize == "initialize"
RequestTypeListTools == "tools/list"
RequestTypeCallTool == "tools/call"
RequestTypeShutdown == "shutdown"

ErrorCodeParseError == -32700
ErrorCodeInvalidRequest == -32600
ErrorCodeMethodNotFound == -32601
ErrorCodeInvalidParams == -32602
ErrorCodeInternalError == -32603
ErrorCodeUnsupportedProtocol == -32000
ErrorCodeToolNotFound == -32001
ErrorCodeToolExecutionError == -32002

StatusOK == 200
StatusBadRequest == 400
StatusNotFound == 404
StatusInternalServerError == 500

(***************************************************************************)
(* Go values.  A nil pointer or nil interface is Nil.  A json.RawMessage   *)
(* is the raw text of one JSON value, kept here as a tagged record; the    *)
(* nil (zero length) RawMessage is NilRaw.  Absent stands for an object    *)
(* member that the JSON text does not have.                                *)
(***************************************************************************)
Nil == [nil |-> TRUE]

NilRaw == [t |-> "nil", n |-> 0, s |-> ""]
Absent == [t |-> "absent", n |-> 0, s |-> ""]
JsonNull == [t |-> "null", n |-> 0, s |-> ""]
JsonNum(k) == [t |-> "num", n |-> k, s |-> ""]
JsonStr(str) == [t |-> "str", n |-> 0, s |-> str]

\* the texts of the Go errors whose wording the dispatch does not depend on
DecodeErrText == "json: cannot decode message"
UnmarshalErrText == "json: cannot unmarshal into typed message"
ToolFailureText == "tool failure"

(***************************************************************************)
(* Inputs.                                                                 *)
(***************************************************************************)
\* the id member of an incoming object
RawIds == {Absent, JsonNull, JsonStr("req-1")} \cup {JsonNum(k) : k \in 1..MaxId}

\* the method member: absent, null, a number, or a string
MethodNames ==
    {RequestTypeInitialize, RequestTypeListTools, RequestTypeCallTool,
     RequestTypeShutdown, "resources/list"}
RawMethods == {Absent, JsonNull, JsonNum(5)} \cup {JsonStr(m) : m \in MethodNames}

ToolNames == {"list_devices", "echo"}
CalledNames == ToolNames \cup {"", "no_such_tool"}
ClientVersions == {"", ProtocolVersion, "1.0.0"}
ClientNames == {"", "test-client"}
ClientRevs == {"", "1.0.0"}

\* the params member: absent, null, a JSON string (not an object), or an
\* object whose members of interest are decoded below; an object member
\* that is missing reads as the empty string, as Go leaves the zero value.
ParamsOf(t, pv, cn, cv, nm) ==
    [t |-> t, pv |-> pv, cname |-> cn, cver |-> cv, name |-> nm]
NoParams == ParamsOf("absent", "", "", "", "")
InitializeObjects ==
    {ParamsOf("obj", pv, cn, cv, "") :
        pv \in ClientVersions, cn \in ClientNames, cv \in ClientRevs}
CallObjects == {ParamsOf("obj", "", "", "", nm) : nm \in CalledNames}
RawParams ==
    {NoParams, ParamsOf("null", "", "", "", ""), ParamsOf("str", "", "", "", "")}
    \cup InitializeObjects \cup CallObjects

\* one line of the input stream, or one request body
RawOf(kind, id, method, params) ==
    [kind |-> kind, id |-> id, method |-> method, params |-> params]
EmptyLine == RawOf("empty", Absent, Absent, NoParams)
Garbage == RawOf("garbage", Absent, Absent, NoParams)
RawMessages ==
    {EmptyLine, Garbage}
    \cup {RawOf("object", id, m, p) : id \in RawIds, m \in RawMethods, p \in RawParams}

\* what the environment makes of a call: the tool's Execute result and the
\* result of the write to the output stream
ExecOutcomes == {"ok", "fail"}
WriteOutcomes == {"ok", "fail"}

\* tool implementations: a name and a revision of description and schema
ToolOf(nm, rev) == [nil |-> FALSE, name |-> nm, rev |-> rev]
NilTool == [nil |-> TRUE, name |-> "", rev |-> 0]
Tools == {ToolOf(nm, rev) : nm \in ToolNames, rev \in 1..MaxRevisions}
RegisterInputs == Tools \cup {NilTool, ToolOf("", 1)}

\* the identities a server can be constructed with
Identities ==
    {[name |-> "tailscale-mcp-server", version |-> "0.1.0"],
     [name |-> "custom-server", version |-> "9.9.9"]}

VARIABLES
    tools,      \* ToolRegistry.tools: name -> Tool
    identity,   \* MCPServer.name, MCPServer.version
    stdioLoop,  \* StdioServer.Start: "reading" or "returned"
    pc,         \* "idle", or "done" when an operation has just completed
    last,       \* what the operation that has just completed did
    latest,     \* history: per name, the tool of the latest successful Register
    health,     \* what the liveness endpoint answered to the request in flight
    session,    \* one run of StdioServer.Start, step by step
    cli,        \* one call of TailscaleCLI.ExecuteCommand and its subprocess
    lw,         \* a limitWriter: its buffer w, its counter n, its limit
    lwRet,      \* what the last Write on lw was given and returned
    up,         \* calls of TailscaleCLI.Up: the one in progress, the one before
    httpd,      \* one run of the serve command in HTTP mode
    snap,       \* the collection that GetTools or ListToolNames returned
    reg,        \* a ToolRegistry used by concurrent callers: map, mutex, callers
    stream,     \* the output of a StdioServer written to by concurrent tasks
    srv,        \* TailscaleMCPServer.running and the calls of StartStdio/StartHTTP
    disp        \* the messages dispatched so far and a reply kept for comparison

\* the variables of the dispatcher, the registry and the two transports
serverVars == <<tools, identity, stdioLoop, pc, last, latest>>

\* the variables of the command executor
cliVars == <<cli, lw, lwRet>>

\* the variables of the components that take no part in a request
extVars == <<httpd, snap, reg, stream, srv, disp>>

vars == <<serverVars, health, session, cliVars, up, extVars>>

(***************************************************************************)
(* Protocol codec: the envelope and its factory functions.                 *)
(***************************************************************************)
\* Message[T, R]
MessageOf(id, method, params, result, error) ==
    [jsonrpc |-> "2.0", id |-> id, method |-> method, params |-> params,
     result |-> result, error |-> error]

NewRequest(id, method, params) == MessageOf(id, method, params, Nil, Nil)

NewResponse(id, result) == MessageOf(id, "", Nil, result, Nil)

\* NewErrorMessage setting a result beside the error
NewErrorMessage_WithResult(id, err) ==
    MessageOf(id, "", Nil, [emptyObject |-> TRUE], err)

NewErrorMessage(id, err) == MessageOf(id, "", Nil, Nil, err)

NewNotification(method, params) == MessageOf(NilRaw, method, params, Nil, Nil)

\* json.Marshal of a Message: jsonrpc is always written; the members tagged
\* omitempty are left out when they hold the zero value (a RawMessage of
\* length 0, the empty string, a nil pointer).
Marshal(msg) ==
    [members |->
        {"jsonrpc"}
        \cup (IF msg.id.t = "nil" THEN {} ELSE {"id"})
        \cup (IF msg.method = "" THEN {} ELSE {"method"})
        \cup (IF msg.params = Nil THEN {} ELSE {"params"})
        \cup (IF msg.result = Nil THEN {} ELSE {"result"})
        \cup (IF msg.error = Nil THEN {} ELSE {"error"}),
     jsonrpc |-> msg.jsonrpc, id |-> msg.id, method |-> msg.method,
     params |-> msg.params, result |-> msg.result, error |-> msg.error]

\* Error
ErrorOf(code, message, data) == [code |-> code, message |-> message, data |-> data]

NewParseError(data) == ErrorOf(ErrorCodeParseError, "Parse error", data)

NewInvalidRequestError(data) ==
    ErrorOf(ErrorCodeInvalidRequest, "Invalid Request", data)

NewMethodNotFoundError(method) ==
    ErrorOf(ErrorCodeMethodNotFound, "Method not found", [method |-> method])

\* NewInvalidParamsError with the code of its neighbour
NewInvalidParamsError_WrongCode(data) ==
    ErrorOf(ErrorCodeInvalidRequest, "Invalid params", data)

NewInvalidParamsError(data) == ErrorOf(ErrorCodeInvalidParams, "Invalid params", data)

NewInternalError(data) == ErrorOf(ErrorCodeInternalError, "Internal error", data)

NewUnsupportedProtocolError(clientVersion, serverVersion) ==
    ErrorOf(ErrorCodeUnsupportedProtocol, "Unsupported protocol version",
            [clientVersion |-> clientVersion, serverVersion |-> serverVersion])

NewToolNotFoundError(toolName) ==
    ErrorOf(ErrorCodeToolNotFound, "Tool not found", [tool |-> toolName])

\* NewToolExecutionError without the tool's original error message
NewToolExecutionError_NoMessage(toolName, errText) ==
    ErrorOf(ErrorCodeToolExecutionError, "Tool execution failed", [tool |-> toolName])

NewToolExecutionError(toolName, errText) ==
    ErrorOf(ErrorCodeToolExecutionError, "Tool execution failed",
            [tool |-> toolName, error |-> errText])

\* a free-form string handed to a constructor as its data
Text(str) == [text |-> str]

\* IsCompatibleProtocolVersion accepting every version
IsCompatibleProtocolVersion_Any(clientVersion) == TRUE

IsCompatibleProtocolVersion(clientVersion) == clientVersion = ProtocolVersion

\* ValidateInitializeRequest without the check of the client version
ValidateInitializeRequest_NoClientVersion(req) ==
    IF req = Nil
    THEN NewInvalidRequestError(Text("Initialize request cannot be nil"))
    ELSE IF req.protocolVersion = ""
    THEN NewInvalidParamsError(Text("Protocol version is required"))
    ELSE IF ~IsCompatibleProtocolVersion(req.protocolVersion)
    THEN NewUnsupportedProtocolError(req.protocolVersion, ProtocolVersion)
    ELSE IF req.clientInfo.name = ""
    THEN NewInvalidParamsError(Text("Client name is required"))
    ELSE Nil

\* returns Nil when the request is valid, the *Error otherwise
ValidateInitializeRequest(req) ==
    IF req = Nil
    THEN NewInvalidRequestError(Text("Initialize request cannot be nil"))
    ELSE IF req.protocolVersion = ""
    THEN NewInvalidParamsError(Text("Protocol version is required"))
    ELSE IF ~IsCompatibleProtocolVersion(req.protocolVersion)
    THEN NewUnsupportedProtocolError(req.protocolVersion, ProtocolVersion)
    ELSE IF req.clientInfo.name = ""
    THEN NewInvalidParamsError(Text("Client name is required"))
    ELSE IF req.clientInfo.version = ""
    THEN NewInvalidParamsError(Text("Client version is required"))
    ELSE Nil

(***************************************************************************)
(* Tool registry.  The map is a function whose domain is the set of        *)
(* registered names.                                                       *)
(***************************************************************************)
MapPut(m, k, v) == [x \in (DOMAIN m) \cup {k} |-> IF x = k THEN v ELSE m[x]]
EmptyMap == [x \in {} |-> NilTool]

\* Register keeping the first tool registered under a name
Register_FirstWins(m, tool) ==
    IF tool.nil
    THEN [err |-> "tool cannot be nil", tools |-> m, warned |-> FALSE]
    ELSE IF tool.name = ""
    THEN [err |-> "tool name cannot be empty", tools |-> m, warned |-> FALSE]
    ELSE IF tool.name \in DOMAIN m
    THEN [err |-> "", tools |-> m, warned |-> TRUE]
    ELSE [err |-> "", tools |-> MapPut(m, tool.name, tool), warned |-> FALSE]

\* Register storing a tool whatever its name
Register_AnyName(m, tool) ==
    IF tool.nil
    THEN [err |-> "tool cannot be nil", tools |-> m, warned |-> FALSE]
    ELSE [err |-> "", tools |-> MapPut(m, tool.name, tool),
          warned |-> tool.name \in DOMAIN m]

\* Register: the error it returns ("" for nil), the map afterwards, and
\* whether the override warning was logged
Register(m, tool) ==
    IF tool.nil
    THEN [err |-> "tool cannot be nil", tools |-> m, warned |-> FALSE]
    ELSE IF tool.name = ""
    THEN [err |-> "tool name cannot be empty", tools |-> m, warned |-> FALSE]
    ELSE [err |-> "", tools |-> MapPut(m, tool.name, tool),
          warned |-> tool.name \in DOMAIN m]

\* GetTool: (tool, ok)
GetTool(m, name) ==
    IF name \in DOMAIN m THEN [tool |-> m[name], ok |-> TRUE]
    ELSE [tool |-> NilTool, ok |-> FALSE]

\* GetTools: a copy of the map
GetTools(m) == [x \in DOMAIN m |-> m[x]]

Close(m) == EmptyMap

\* ListToolNames: the names, in the unspecified order of a Go map
ListToolNames(m) == DOMAIN m

\* Count
Count(m) == Cardinality(DOMAIN m)

\* GetTools handing out r.tools itself
Returned_SameMap(m) == [kind |-> "tools", alias |-> TRUE, m |-> m]

\* the collection in the hands of the caller of GetTools: a map of its own
\* (alias is FALSE), filled from r.tools
Returned(m) == [kind |-> "tools", alias |-> FALSE, m |-> GetTools(m)]

\* the built-in tool that NewToolRegistry registers
BuiltinTool == ToolOf("list_devices", 1)
NewToolRegistry == Register(EmptyMap, BuiltinTool).tools

(***************************************************************************)
(* MCPServer: the server behind both transports.  A call returns the value *)
(* and the error of the Go method, the handlers and registry operations it *)
(* ran (calls) and the tools whose Execute it invoked (executed).          *)
(***************************************************************************)
CallResult(val, err, calls, executed) ==
    [val |-> val, err |-> err, calls |-> calls, executed |-> executed]

Initialize(req) ==
    LET e == ValidateInitializeRequest(req)
    IN  IF e # Nil
        THEN CallResult(Nil, e, {"Initialize"}, {})
        ELSE CallResult(
                [protocolVersion |-> ProtocolVersion,
                 serverInfo |-> [name |-> identity.name, version |-> identity.version],
                 capabilities |-> [tools |-> "{}"]],
                Nil, {"Initialize"}, {})

\* the descriptor ListTools builds from a tool: Name(), Description(), InputSchema()
Descriptor(t) == [name |-> t.name, description |-> t.rev, inputSchema |-> t.rev]

\* the list is built by ranging over a Go map, whose order is unspecified:
\* it is kept as the set of its elements
ListTools(req) ==
    LET registeredTools == GetTools(tools)
    IN  CallResult(
            [tools |-> {Descriptor(registeredTools[n]) : n \in DOMAIN registeredTools}],
            Nil, {"ListTools", "GetTools"}, {})

\* CallTool reporting a missing tool as a failed execution
CallTool_MissingAsFailure(req, exec) ==
    LET g == GetTool(tools, req.name)
    IN  IF ~g.ok \/ exec = "fail"
        THEN CallResult(Nil, NewToolExecutionError(req.name, ToolFailureText),
                        {"CallTool", "GetTool"}, IF g.ok THEN {g.tool.name} ELSE {})
        ELSE CallResult([content |-> <<[type |-> "text", text |-> g.tool.name]>>],
                        Nil, {"CallTool", "GetTool"}, {g.tool.name})

\* exec is the outcome of the tool's Execute, should it be invoked
CallTool(req, exec) ==
    LET g == GetTool(tools, req.name)
    IN  IF ~g.ok
        THEN CallResult(Nil, NewToolNotFoundError(req.name), {"CallTool", "GetTool"}, {})
        ELSE IF exec = "fail"
        THEN CallResult(Nil, NewToolExecutionError(req.name, ToolFailureText),
                        {"CallTool", "GetTool"}, {g.tool.name})
        ELSE CallResult([content |-> <<[type |-> "text", text |-> g.tool.name]>>],
                        Nil, {"CallTool", "GetTool"}, {g.tool.name})

\* a shutdown hook that reports a failure
Shutdown_Failing(req) == CallResult(Nil, Text("shutdown failed"), {"Shutdown"}, {})

\* MCPServer.Shutdown logs and returns nil
Shutdown(req) == CallResult(Nil, Nil, {"Shutdown"}, {})

(***************************************************************************)
(* Decoding.                                                               *)
(***************************************************************************)
\* json.Unmarshal of a raw value into a Go string: null leaves the string
\* empty, any value that is not a string is an error
UnmarshalString(v) ==
    [err |-> v.t \notin {"str", "null"}, val |-> IF v.t = "str" THEN v.s ELSE ""]

\* the typed params of Message[T, any] decoded from a params object
TypedParams(T, p) ==
    CASE T = "InitializeRequest" ->
            [protocolVersion |-> p.pv,
             clientInfo |-> [name |-> p.cname, version |-> p.cver]]
      [] T = "CallToolRequest" -> [name |-> p.name]
      [] OTHER -> [empty |-> TRUE]

\* json.Unmarshal of the whole message into Message[T, any]: an absent or
\* null params leaves the pointer nil, a params that is not an object fails
UnmarshalMessage(T, raw) ==
    IF raw.params.t = "str" THEN [err |-> TRUE, params |-> Nil]
    ELSE IF raw.params.t = "obj" THEN [err |-> FALSE, params |-> TypedParams(T, raw.params)]
    ELSE [err |-> FALSE, params |-> Nil]

\* errors.As(err, &mcpErr): whether the error is an *mcp.Error
ErrorsAs(err) == "code" \in DOMAIN err

\* no server call was made
NoCall == CallResult(Nil, Nil, {}, {})

\* what a handler did: the envelope it handed to the writer, the HTTP
\* status (0 on the line transport), and the trace of the server call
Handled(msg, status, calls, executed) ==
    [msg |-> msg, status |-> status, calls |-> calls, executed |-> executed]

(***************************************************************************)
(* Line transport: StdioServer.                                            *)
(***************************************************************************)
Stdio_sendResponse(id, result) == [msg |-> NewResponse(id, result), status |-> 0]

Stdio_sendError(id, err) == [msg |-> NewErrorMessage(id, err), status |-> 0]

\* a send with the trace of the server call r that led to it
Stdio_respond(id, r) ==
    LET sent == Stdio_sendResponse(id, r.val)
    IN  Handled(sent.msg, sent.status, r.calls, r.executed)

Stdio_fail(id, err, r) ==
    LET sent == Stdio_sendError(id, err)
    IN  Handled(sent.msg, sent.status, r.calls, r.executed)

Stdio_handleInitialize(id, raw) ==
    LET msg == UnmarshalMessage("InitializeRequest", raw)
    IN  IF msg.err
        THEN Stdio_fail(id, NewInvalidParamsError(Text(UnmarshalErrText)), NoCall)
        ELSE IF msg.params = Nil
        THEN Stdio_fail(id, NewInvalidParamsError(Text("missing params")), NoCall)
        ELSE LET r == Initialize(msg.params)
             IN  IF r.err # Nil
                 THEN IF ErrorsAs(r.err) THEN Stdio_fail(id, r.err, r)
                      ELSE Stdio_fail(id, NewInternalError(r.err), r)
                 ELSE Stdio_respond(id, r)

\* handleListTools refusing to answer before an initialize has succeeded
Stdio_handleListTools_AfterInitialize(id, raw) ==
    IF ~disp.inited
    THEN Stdio_fail(id, NewInvalidRequestError(Text("server not initialized")), NoCall)
    ELSE Stdio_respond(id, ListTools([empty |-> TRUE]))

Stdio_handleListTools(id, raw) ==
    LET msg == UnmarshalMessage("ListToolsRequest", raw)
    IN  IF msg.err
        THEN Stdio_fail(id, NewInvalidParamsError(Text(UnmarshalErrText)), NoCall)
        ELSE LET params == IF msg.params # Nil THEN msg.params ELSE [empty |-> TRUE]
                 r == ListTools(params)
             IN  IF r.err # Nil
                 THEN IF ErrorsAs(r.err) THEN Stdio_fail(id, r.err, r)
                      ELSE Stdio_fail(id, NewInternalError(r.err), r)
                 ELSE Stdio_respond(id, r)

\* handleCallTool without the check for missing params: the server is called
\* with a zero CallToolRequest
Stdio_handleCallTool_NoParamsCheck(id, raw, exec) ==
    LET msg == UnmarshalMessage("CallToolRequest", raw)
    IN  IF msg.err
        THEN Stdio_fail(id, NewInvalidParamsError(Text(UnmarshalErrText)), NoCall)
        ELSE LET params == IF msg.params # Nil THEN msg.params ELSE [name |-> ""]
                 r == CallTool(params, exec)
             IN  IF r.err # Nil THEN Stdio_fail(id, r.err, r) ELSE Stdio_respond(id, r)

Stdio_handleCallTool(id, raw, exec) ==
    LET msg == UnmarshalMessage("CallToolRequest", raw)
    IN  IF msg.err
        THEN Stdio_fail(id, NewInvalidParamsError(Text(UnmarshalErrText)), NoCall)
        ELSE IF msg.params = Nil
        THEN Stdio_fail(id, NewInvalidParamsError(Text("missing params")), NoCall)
        ELSE LET r == CallTool(msg.params, exec)
             IN  IF r.err # Nil
                 THEN IF ErrorsAs(r.err) THEN Stdio_fail(id, r.err, r)
                      ELSE Stdio_fail(id, NewToolExecutionError(msg.params.name, r.err), r)
                 ELSE Stdio_respond(id, r)

\* the success result is the empty JSON object
Stdio_handleShutdown(id, raw) ==
    LET msg == UnmarshalMessage("ShutdownRequest", raw)
    IN  IF msg.err
        THEN Stdio_fail(id, NewInvalidParamsError(Text(UnmarshalErrText)), NoCall)
        ELSE LET r == Shutdown(msg.params)
             IN  IF r.err # Nil
                 THEN IF ErrorsAs(r.err) THEN Stdio_fail(id, r.err, r)
                      ELSE Stdio_fail(id, NewInternalError(r.err), r)
                 ELSE Stdio_respond(id, [r EXCEPT !.val = [emptyObject |-> TRUE]])

\* the routing switch
Stdio_route(id, method, raw, exec) ==
    CASE method = RequestTypeInitialize -> Stdio_handleInitialize(id, raw)
      [] method = RequestTypeListTools -> Stdio_handleListTools(id, raw)
      [] method = RequestTypeCallTool -> Stdio_handleCallTool(id, raw, exec)
      [] method = RequestTypeShutdown -> Stdio_handleShutdown(id, raw)
      [] OTHER -> Stdio_fail(id, NewMethodNotFoundError(method), NoCall)

Stdio_handleMessage(raw, exec) ==
    IF raw.kind # "object"
    THEN Stdio_fail(NilRaw, NewParseError(Text(DecodeErrText)), NoCall)
    ELSE LET id == IF raw.id # Absent THEN raw.id ELSE NilRaw
             m == IF raw.method # Absent THEN UnmarshalString(raw.method)
                  ELSE [err |-> FALSE, val |-> ""]
         IN  IF m.err
             THEN Stdio_fail(id, NewInvalidRequestError(Text("invalid method")), NoCall)
             ELSE Stdio_route(id, m.val, raw, exec)

(***************************************************************************)
(* Request transport: HTTPServer, POST /mcp.                               *)
(***************************************************************************)
HTTP_sendResponse(id, result) == [msg |-> NewResponse(id, result), status |-> StatusOK]

\* sendError answering every error with the server-error status
HTTP_sendError_AllServerError(id, err) ==
    [msg |-> NewErrorMessage(id, err), status |-> StatusInternalServerError]

HTTP_sendError(id, err) == 
    [msg |-> NewErrorMessage(id, err),
     status |->
        CASE err.code \in {ErrorCodeParseError, ErrorCodeInvalidRequest,
                           ErrorCodeInvalidParams} -> StatusBadRequest
          [] err.code = ErrorCodeMethodNotFound -> StatusNotFound
          [] err.code = ErrorCodeToolNotFound -> StatusNotFound
          [] OTHER -> StatusInternalServerError]

\* a send with the trace of the server call r that led to it
HTTP_respond(id, r) ==
    LET sent == HTTP_sendResponse(id, r.val)
    IN  Handled(sent.msg, sent.status, r.calls, r.executed)

HTTP_fail(id, err, r) ==
    LET sent == HTTP_sendError(id, err)
    IN  Handled(sent.msg, sent.status, r.calls, r.executed)

HTTP_handleInitialize(id, raw) ==
    LET msg == UnmarshalMessage("InitializeRequest", raw)
    IN  IF msg.err
        THEN HTTP_fail(id, NewInvalidParamsError(Text(UnmarshalErrText)), NoCall)
        ELSE IF msg.params = Nil
        THEN HTTP_fail(id, NewInvalidParamsError(Text("missing params")), NoCall)
        ELSE LET r == Initialize(msg.params)
             IN  IF r.err # Nil
                 THEN IF ErrorsAs(r.err) THEN HTTP_fail(id, r.err, r)
                      ELSE HTTP_fail(id, NewInternalError(r.err), r)
                 ELSE HTTP_respond(id, r)

HTTP_handleListTools(id, raw) ==
    LET msg == UnmarshalMessage("ListToolsRequest", raw)
    IN  IF msg.err
        THEN HTTP_fail(id, NewInvalidParamsError(Text(UnmarshalErrText)), NoCall)
        ELSE LET params == IF msg.params # Nil THEN msg.params ELSE [empty |-> TRUE]
                 r == ListTools(params)
             IN  IF r.err # Nil
                 THEN IF ErrorsAs(r.err) THEN HTTP_fail(id, r.err, r)
                      ELSE HTTP_fail(id, NewInternalError(r.err), r)
                 ELSE HTTP_respond(id, r)

HTTP_handleCallTool(id, raw, exec) ==
    LET msg == UnmarshalMessage("CallToolRequest", raw)
    IN  IF msg.err
        THEN HTTP_fail(id, NewInvalidParamsError(Text(UnmarshalErrText)), NoCall)
        ELSE IF msg.params = Nil
        THEN HTTP_fail(id, NewInvalidParamsError(Text("missing params")), NoCall)
        ELSE LET r == CallTool(msg.params, exec)
             IN  IF r.err # Nil
                 THEN IF ErrorsAs(r.err) THEN HTTP_fail(id, r.err, r)
                      ELSE HTTP_fail(id, NewToolExecutionError(msg.params.name, r.err), r)
                 ELSE HTTP_respond(id, r)

\* the success result is the empty JSON object
HTTP_handleShutdown(id, raw) ==
    LET msg == UnmarshalMessage("ShutdownRequest", raw)
    IN  IF msg.err
        THEN HTTP_fail(id, NewInvalidParamsError(Text(UnmarshalErrText)), NoCall)
        ELSE LET r == Shutdown(msg.params)
             IN  IF r.err # Nil
                 THEN IF ErrorsAs(r.err) THEN HTTP_fail(id, r.err, r)
                      ELSE HTTP_fail(id, NewInternalError(r.err), r)
                 ELSE HTTP_respond(id, [r EXCEPT !.val = [emptyObject |-> TRUE]])

\* the routing switch sending an unknown method to the tools/list handler
HTTP_route_DefaultLists(id, method, raw, exec) ==
    CASE method = RequestTypeInitialize -> HTTP_handleInitialize(id, raw)
      [] method = RequestTypeCallTool -> HTTP_handleCallTool(id, raw, exec)
      [] method = RequestTypeShutdown -> HTTP_handleShutdown(id, raw)
      [] OTHER -> HTTP_handleListTools(id, raw)

\* the routing switch
HTTP_route(id, method, raw, exec) ==
    CASE method = RequestTypeInitialize -> HTTP_handleInitialize(id, raw)
      [] method = RequestTypeListTools -> HTTP_handleListTools(id, raw)
      [] method = RequestTypeCallTool -> HTTP_handleCallTool(id, raw, exec)
      [] method = RequestTypeShutdown -> HTTP_handleShutdown(id, raw)
      [] OTHER -> HTTP_fail(id, NewMethodNotFoundError(method), NoCall)

HTTP_handleMCPRequest(raw, exec) ==
    IF raw.kind # "object"
    THEN HTTP_fail(NilRaw, NewParseError(Text(DecodeErrText)), NoCall)
    ELSE LET id == IF raw.id # Absent THEN raw.id ELSE NilRaw
             m == IF raw.method # Absent THEN UnmarshalString(raw.method)
                  ELSE [err |-> FALSE, val |-> ""]
         IN  IF m.err
             THEN HTTP_fail(id, NewInvalidRequestError(Text("invalid method")), NoCall)
             ELSE HTTP_route(id, m.val, raw, exec)

(***************************************************************************)
(* State machine.  Every operation runs from "idle" and leaves in `last`   *)
(* what it did; Return is the operation returning to its caller (the read  *)
(* loop, the HTTP server), which drops the locals of the call.             *)
(***************************************************************************)
NoEnv ==
    [members |-> {}, jsonrpc |-> "", id |-> NilRaw, method |-> "",
     params |-> Nil, result |-> Nil, error |-> Nil]

NoObs ==
    [op |-> "none", raw |-> EmptyLine, handled |-> FALSE, reply |-> NoEnv,
     sent |-> FALSE, status |-> 0, calls |-> {}, executed |-> {},
     tool |-> NilTool, err |-> "", warned |-> FALSE, existed |-> FALSE,
     failed |-> FALSE]

\* no request to the liveness endpoint is in flight
NoHealth ==
    [served |-> FALSE, method |-> "", status |-> 0, body |-> <<>>, calls |-> {},
     busy |-> FALSE]

(***************************************************************************)
(* Command executor: TailscaleCLI.ExecuteCommand and limitWriter.  A       *)
(* string is the sequence of its characters, a byte slice the sequence of  *)
(* its bytes.                                                              *)
(***************************************************************************)
maxArgLen == 1000
timeout == 30
\* the cap of the stdout and stderr buffers, scaled from 10 MB
maxBufSize == MaxLimit

allowedCommands ==
    {<<"s", "t", "a", "t", "u", "s">>,
     <<"u", "p">>,
     <<"d", "o", "w", "n">>,
     <<"l", "o", "g", "o", "u", "t">>,
     <<"s", "w", "i", "t", "c", "h">>,
     <<"c", "o", "n", "f", "i", "g", "u", "r", "e">>,
     <<"n", "e", "t", "c", "h", "e", "c", "k">>,
     <<"i", "p">>,
     <<"p", "i", "n", "g">>,
     <<"s", "s", "h">>,
     <<"v", "e", "r", "s", "i", "o", "n">>,
     <<"u", "p", "d", "a", "t", "e">>,
     <<"w", "e", "b">>,
     <<"f", "i", "l", "e">>,
     <<"b", "u", "g", "r", "e", "p", "o", "r", "t">>,
     <<"c", "e", "r", "t">>,
     <<"l", "o", "c", "k">>,
     <<"l", "i", "c", "e", "n", "s", "e", "s">>,
     <<"e", "x", "i", "t", "-", "n", "o", "d", "e">>,
     <<"s", "e", "t">>,
     <<"u", "n", "s", "e", "t">>}

\* the characters that strings.ContainsAny rejects in an argument; the
\* grave accent is written "backtick"
InvalidChars == {";", "&", "|", "backtick", "$", "(", ")", "{", "}", "[", "]", "<", ">"}

newLimitWriter(limit) == [w |-> <<>>, n |-> 0, limit |-> limit]

ExceedsText(limit) == "output exceeds " \o ToString(limit) \o " bytes: short write"

\* limitWriter.Write storing the whole input whatever the limit
limitWriter_Write_Unlimited(l, p) ==
    [l |-> [l EXCEPT !.w = @ \o p, !.n = @ + Len(p)], n |-> Len(p), err |-> ""]

\* limitWriter.Write: the writer after the call, the count and the error
limitWriter_Write(l, p) ==
    IF l.n + Len(p) > l.limit
    THEN LET remaining == l.limit - l.n
         IN  [l |-> IF remaining > 0
                    THEN [l EXCEPT !.w = @ \o SubSeq(p, 1, remaining), !.n = @ + remaining]
                    ELSE l,
              n |-> remaining, err |-> ExceedsText(l.limit)]
    ELSE [l |-> [l EXCEPT !.w = @ \o p, !.n = @ + Len(p)], n |-> Len(p), err |-> ""]

\* the argument validation of ExecuteCommand: the error, or Nil when the
\* arguments pass; Go counts the arguments from 0
NoError == [msg |-> ""]
FirstBad(args) ==
    CHOOSE i \in DOMAIN args :
        /\ Len(args[i]) > maxArgLen \/ (\E k \in DOMAIN args[i] : args[i][k] \in InvalidChars)
        /\ \A j \in 1..(i - 1) :
              ~(Len(args[j]) > maxArgLen \/ (\E k \in DOMAIN args[j] : args[j][k] \in InvalidChars))

\* the validation without the check of the characters
Validate_NoCharCheck(args) ==
    IF Len(args) = 0 THEN [msg |-> "no command specified"]
    ELSE IF args[1] \notin allowedCommands
    THEN [msg |-> "command not allowed", command |-> args[1]]
    ELSE NoError

\* the validation checking the length of every argument before the
\* characters of any
Validate_LengthsFirst(args) ==
    IF Len(args) = 0 THEN [msg |-> "no command specified"]
    ELSE IF args[1] \notin allowedCommands
    THEN [msg |-> "command not allowed", command |-> args[1]]
    ELSE IF \E i \in DOMAIN args : Len(args[i]) > maxArgLen
    THEN LET i == CHOOSE i \in DOMAIN args :
                      /\ Len(args[i]) > maxArgLen
                      /\ \A j \in 1..(i - 1) : Len(args[j]) <= maxArgLen
         IN  [msg |-> "argument too long", index |-> i - 1, chars |-> Len(args[i])]
    ELSE IF \E i \in DOMAIN args : \E k \in DOMAIN args[i] : args[i][k] \in InvalidChars
    THEN LET i == CHOOSE i \in DOMAIN args :
                      /\ \E k \in DOMAIN args[i] : args[i][k] \in InvalidChars
                      /\ \A j \in 1..(i - 1) :
                            \A k \in DOMAIN args[j] : args[j][k] \notin InvalidChars
         IN  [msg |-> "argument contains invalid characters", index |-> i - 1,
              arg |-> args[i]]
    ELSE NoError

Validate(args) ==
    IF Len(args) = 0 THEN [msg |-> "no command specified"]
    ELSE IF args[1] \notin allowedCommands
    THEN [msg |-> "command not allowed", command |-> args[1]]
    ELSE IF \E i \in DOMAIN args :
              Len(args[i]) > maxArgLen \/ (\E k \in DOMAIN args[i] : args[i][k] \in InvalidChars)
    THEN LET i == FirstBad(args)
         IN  IF Len(args[i]) > maxArgLen
             THEN [msg |-> "argument too long", index |-> i - 1, chars |-> Len(args[i])]
             ELSE [msg |-> "argument contains invalid characters", index |-> i - 1,
                   arg |-> args[i]]
    ELSE NoError

\* no Write has been made
NoWrite == [p |-> <<>>, n |-> 0, err |-> "", before |-> newLimitWriter(0), calls |-> 0]

\* no call of ExecuteCommand has been made
NoCommand ==
    [pos |-> "idle", args |-> <<>>, env |-> <<>>, logged |-> <<>>, proc |-> "none",
     spawned |-> 0, elapsed |-> 0, cancelled |-> FALSE, copyErr |-> "", out |-> <<>>,
     err |-> NoError]

\* the CLIError of a command that ran and failed
CLIError(args, underlying) ==
    [msg |-> "tailscale failed", command |-> args[1], args |-> args,
     underlying |-> underlying]

\* validateStringInput: the error, or NoError; the characters are tried in
\* the order of dangerousChars, the length last
dangerousChars == <<";", "&", "|", "backtick", "$", "(", ")", "{", "}", "<", ">", "\\">>
validateStringInput(input, fieldName) ==
    IF \E i \in DOMAIN dangerousChars : \E k \in DOMAIN input : input[k] = dangerousChars[i]
    THEN LET i == CHOOSE i \in DOMAIN dangerousChars :
                      /\ \E k \in DOMAIN input : input[k] = dangerousChars[i]
                      /\ \A j \in 1..(i - 1) :
                            \A k \in DOMAIN input : input[k] # dangerousChars[j]
         IN  [msg |-> "invalid character", char |-> dangerousChars[i], field |-> fieldName]
    ELSE IF Len(input) > maxArgLen
    THEN [msg |-> "too long", field |-> fieldName, max |-> maxArgLen]
    ELSE NoError

\* the words of the command line of `tailscale up`
UpWords ==
    [up |-> <<"u", "p">>,
     loginServer |-> <<"-", "-", "l", "o", "g", "i", "n", "-", "s", "e", "r", "v", "e", "r">>,
     acceptRoutes |-> <<"-", "-", "a", "c", "c", "e", "p", "t", "-", "r", "o", "u", "t", "e", "s">>,
     acceptDNS |-> <<"-", "-", "a", "c", "c", "e", "p", "t", "-", "d", "n", "s">>,
     hostname |-> <<"-", "-", "h", "o", "s", "t", "n", "a", "m", "e">>,
     authKeyEnv |-> <<"T", "S", "_", "A", "U", "T", "H", "K", "E", "Y", "=">>,
     authKeyNote |-> "Auth key passed securely via TS_AUTHKEY environment variable"]

\* the call of Up has not reached ExecuteCommand
UpFails(wrap, e) == [err |-> [e EXCEPT !.msg = wrap \o ": " \o @], args |-> <<>>,
                     env |-> <<>>, logged |-> <<>>]

\* Up handing the auth key over on the command line
Up_KeyInArgs(options) ==
    [err |-> NoError,
     args |-> <<UpWords.up>> \o (IF options.AuthKey # <<>>
                             THEN <<<<"-", "-", "a", "u", "t", "h", "k", "e", "y">>, options.AuthKey>> ELSE <<>>),
     env |-> <<>>, logged |-> <<>>]

\* TailscaleCLI.Up up to its call of ExecuteCommand: the error of a rejected
\* option, or the arguments and the environment entries it builds; the
\* options AdvertiseRoutes and Timeout are left unset
Up(options) ==
    LET ls == validateStringInput(options.LoginServer, "loginServer")
        hn == validateStringInput(options.Hostname, "hostname")
        ak == validateStringInput(options.AuthKey, "authKey")
    IN  IF options.LoginServer # <<>> /\ ls # NoError
        THEN UpFails("invalid login server", ls)
        ELSE IF options.Hostname # <<>> /\ hn # NoError
        THEN UpFails("invalid hostname", hn)
        ELSE IF options.AuthKey # <<>> /\ ak # NoError
        THEN UpFails("invalid auth key", ak)
        ELSE [err |-> NoError,
              args |-> <<UpWords.up>>
                       \o (IF options.LoginServer # <<>>
                           THEN <<UpWords.loginServer, options.LoginServer>> ELSE <<>>)
                       \o (IF options.AcceptRoutes THEN <<UpWords.acceptRoutes>> ELSE <<>>)
                       \o (IF options.AcceptDNS THEN <<UpWords.acceptDNS>> ELSE <<>>)
                       \o (IF options.Hostname # <<>>
                           THEN <<UpWords.hostname, options.Hostname>> ELSE <<>>),
              env |-> IF options.AuthKey # <<>>
                      THEN <<UpWords.authKeyEnv \o options.AuthKey>> ELSE <<>>,
              logged |-> IF options.AuthKey # <<>>
                         THEN <<[msg |-> UpWords.authKeyNote]>> ELSE <<>>]

\* a new registry that no goroutine is using: the mutex is free
NoCallers ==
    [m |-> NewToolRegistry, torn |-> FALSE, writer |-> 0, readers |-> {},
     callers |-> [p \in 1..MaxCallers |->
                    [pos |-> "idle", op |-> "", tool |-> NilTool, name |-> ""]]]

\* a new StdioServer: nothing written, s.mu free, no task in writeMessage
NoWriters ==
    [out |-> <<>>, mu |-> 0,
     tasks |-> [p \in 1..MaxWriters |-> [pos |-> "idle", n |-> 0, err |-> ""]]]

\* no message dispatched yet: neither initialize nor shutdown has been
\* answered, no reply kept, no message seen a second time
NoDispatch == [inited |-> FALSE, acked |-> FALSE, memo |-> <<>>, again |-> <<>>]

\* server.New: not running, no call of StartStdio or StartHTTP in progress
NewServer ==
    [running |-> FALSE, seen |-> <<>>,
     starts |-> [p \in 1..MaxStarts |-> [pos |-> "idle", mode |-> "", err |-> ""]]]

\* no collection has been returned
NoSnapshot == [kind |-> "none", alias |-> FALSE, m |-> EmptyMap, at |-> EmptyMap, edits |-> 0]

\* the serve command has not been run
NoServe ==
    [pos |-> "new", listen |-> "none", signalled |-> FALSE, inflight |-> 0,
     shutdown |-> FALSE, grace |-> 0, ret |-> "", exit |-> -1]

\* no call of Up has been made
NoUp == [pos |-> "idle", options |-> <<>>, err |-> NoError, logged |-> <<>>, prev |-> <<>>]

\* Start has just been called: nothing read, nothing written
NoSession ==
    [pos |-> "top", line |-> EmptyLine, scanned |-> 0, idx |-> 0, allId |-> TRUE,
     exec |-> "ok", elapsed |-> 0, pending |-> NoEnv, attempts |-> 0, werrs |-> 0,
     out |-> <<>>,
     cancelled |-> FALSE, ret |-> "", exit |-> -1]

\* the server after server.New, no request taken yet
ServerInit ==
    /\ tools = NewToolRegistry
    /\ identity \in Identities
    /\ stdioLoop = "reading"
    /\ pc = "idle"
    /\ last = NoObs
    /\ latest = NewToolRegistry
    /\ health = NoHealth
    /\ session = NoSession
    /\ up = NoUp
    /\ httpd = NoServe
    /\ snap = NoSnapshot
    /\ reg = NoCallers
    /\ stream = NoWriters
    /\ srv = NewServer
    /\ disp = NoDispatch

Init ==
    /\ ServerInit
    /\ cli = NoCommand
    /\ lw = newLimitWriter(maxBufSize)
    /\ lwRet = NoWrite

\* StdioServer.writeMessage: the envelope is marshalled and written, with
\* its newline, unless the write to the stream fails
writeMessage(msg, w) == [data |-> Marshal(msg), ok |-> w = "ok"]

\* One pass of the loop of StdioServer.Start with a line scanned: an empty
\* line is skipped, any other is handled; an error of handleMessage is
\* logged and the loop continues.
StdioLine(raw, exec, w) ==
    /\ pc = "idle"
    /\ stdioLoop = "reading"
    /\ IF raw.kind = "empty"
       THEN last' = [NoObs EXCEPT !.op = "stdio", !.raw = raw]
       ELSE LET h == Stdio_handleMessage(raw, exec)
                wr == writeMessage(h.msg, w)
            IN  last' = [NoObs EXCEPT !.op = "stdio", !.raw = raw, !.handled = TRUE,
                                      !.reply = wr.data, !.sent = wr.ok,
                                      !.calls = h.calls, !.executed = h.executed,
                                      !.failed = (h.executed # {} /\ exec = "fail")]
    /\ stdioLoop' = "reading"
    /\ pc' = "done"
    /\ UNCHANGED <<up, extVars, health, session, cliVars, tools, identity, latest>>

\* StdioServer.Start: Scan reports the end of the input; Start returns nil
StdioEOF ==
    /\ pc = "idle"
    /\ stdioLoop = "reading"
    /\ stdioLoop' = "returned"
    /\ last' = [NoObs EXCEPT !.op = "eof"]
    /\ pc' = "done"
    /\ UNCHANGED <<up, extVars, health, session, cliVars, tools, identity, latest>>

\* TailscaleMCPServer.StartStdio: a new StdioServer over the same server
StartStdio ==
    /\ pc = "idle"
    /\ stdioLoop = "returned"
    /\ stdioLoop' = "reading"
    /\ last' = [NoObs EXCEPT !.op = "start"]
    /\ pc' = "done"
    /\ UNCHANGED <<up, extVars, health, session, cliVars, tools, identity, latest>>

\* HTTPServer.handleMCPRequest for a POST with the given body; writeJSON
\* writes the status and the encoded envelope
HTTPRequest(raw, exec) ==
    /\ pc = "idle"
    /\ LET h == HTTP_handleMCPRequest(raw, exec)
       IN  last' = [NoObs EXCEPT !.op = "http", !.raw = raw, !.handled = TRUE,
                                 !.reply = Marshal(h.msg), !.sent = TRUE,
                                 !.status = h.status,
                                 !.calls = h.calls, !.executed = h.executed,
                                 !.failed = (h.executed # {} /\ exec = "fail")]
    /\ pc' = "done"
    /\ UNCHANGED <<up, extVars, health, session, cliVars, tools, identity, stdioLoop, latest>>

\* ToolRegistry.Register
RegisterTool(tool) ==
    /\ pc = "idle"
    /\ LET r == Register(tools, tool)
       IN  /\ tools' = r.tools
           /\ last' = [NoObs EXCEPT !.op = "register", !.tool = tool, !.err = r.err,
                                    !.warned = r.warned,
                                    !.existed = (~tool.nil /\ tool.name \in DOMAIN tools)]
           /\ latest' = IF r.err = "" THEN MapPut(latest, tool.name, tool) ELSE latest
    /\ pc' = "done"
    /\ UNCHANGED <<up, extVars, health, session, cliVars, identity, stdioLoop>>

\* ToolRegistry.Close
CloseRegistry ==
    /\ pc = "idle"
    /\ tools' = Close(tools)
    /\ latest' = EmptyMap
    /\ last' = [NoObs EXCEPT !.op = "close"]
    /\ pc' = "done"
    /\ UNCHANGED <<up, extVars, health, session, cliVars, identity, stdioLoop>>

\* the routes of setupRoutes: the handler of a path and method, 405 for a
\* known path with another method, 404 for an unknown path
Routes ==
    {[path |-> "/mcp", methods |-> {"POST", "OPTIONS"}, handler |-> "handleMCPRequest"],
     [path |-> "/health", methods |-> {"GET"}, handler |-> "handleHealth"],
     [path |-> "/info", methods |-> {"GET"}, handler |-> "handleInfo"]}

\* setupRoutes with the liveness handler bound to the dispatch endpoint
setupRoutes_HealthDispatches(path, method) ==
    IF path = "/health" /\ method = "GET" THEN "handleMCPRequest" ELSE "404"

setupRoutes(path, method) ==
    IF \E r \in Routes : r.path = path /\ method \in r.methods
    THEN (CHOOSE r \in Routes : r.path = path /\ method \in r.methods).handler
    ELSE IF \E r \in Routes : r.path = path THEN "405"
    ELSE "404"

\* HTTPServer.handleHealth: status 200 and the fixed payload; it reads
\* neither the server nor the registry
handleHealth ==
    [status |-> StatusOK,
     body |-> [status |-> "healthy", server |-> "tailscale-mcp-server"],
     calls |-> {}]

\* the methods a client uses on the liveness endpoint
HealthMethods == {"GET", "POST"}

\* a request to /health, served whatever the dispatcher is doing: busy
\* records that a dispatch request had not returned yet
HealthRequest(method) ==
    /\ health = NoHealth
    /\ LET h == setupRoutes("/health", method)
       IN  health' =
             IF h = "handleHealth"
             THEN [served |-> TRUE, method |-> method, status |-> handleHealth.status,
                   body |-> handleHealth.body, calls |-> handleHealth.calls,
                   busy |-> pc = "done"]
             ELSE IF h = "handleMCPRequest"
             THEN LET d == HTTP_handleMCPRequest(Garbage, "ok")
                  IN  [served |-> TRUE, method |-> method, status |-> d.status,
                       body |-> Marshal(d.msg),
                       calls |-> {"handleMCPRequest"}, busy |-> pc = "done"]
             ELSE [served |-> TRUE, method |-> method, status |-> 405, body |-> <<>>,
                   calls |-> {}, busy |-> pc = "done"]
    /\ UNCHANGED <<up, extVars, serverVars, session, cliVars>>

\* the response of the liveness endpoint has been written
HealthDone ==
    /\ health # NoHealth
    /\ health' = NoHealth
    /\ UNCHANGED <<up, extVars, serverVars, session, cliVars>>

\* the values handed to the factory functions by their callers: the ids a
\* transport extracts, the four methods, typed params, results and the
\* errors of the constructors
FactoryIds == {NilRaw, JsonNull, JsonStr("req-1")} \cup {JsonNum(k) : k \in 1..MaxId}
FactoryParams ==
    {TypedParams("InitializeRequest", ParamsOf("obj", ProtocolVersion, "test", "1.0", "")),
     TypedParams("CallToolRequest", ParamsOf("obj", "", "", "", "echo")),
     TypedParams("ListToolsRequest", NoParams)}
FactoryResults ==
    {[protocolVersion |-> ProtocolVersion,
      serverInfo |-> [name |-> "test-server", version |-> "1.0"],
      capabilities |-> [tools |-> "{}"]],
     [emptyObject |-> TRUE]}
FactoryErrors ==
    {NewParseError(Text("invalid json")), NewInvalidRequestError(Text("invalid method")),
     NewMethodNotFoundError("unknown/method"), NewInvalidParamsError(Text("missing params")),
     NewInternalError(Text("test error")),
     NewUnsupportedProtocolError("1.0.0", ProtocolVersion),
     NewToolNotFoundError("no_such_tool"),
     NewToolExecutionError("echo", ToolFailureText)}
FactoryEnvelopes ==
    {NewRequest(id, m, p) :
        id \in FactoryIds \ {NilRaw}, m \in MethodNames, p \in FactoryParams}
    \cup {NewNotification(m, p) : m \in MethodNames, p \in FactoryParams}
    \cup {NewResponse(id, r) : id \in FactoryIds, r \in FactoryResults}
    \cup {NewErrorMessage(id, e) : id \in FactoryIds, e \in FactoryErrors}

\* a caller builds an envelope with one of the factory functions and
\* marshals it
BuildEnvelope(msg) ==
    /\ pc = "idle"
    /\ last' = [NoObs EXCEPT !.op = "build", !.reply = Marshal(msg)]
    /\ pc' = "done"
    /\ UNCHANGED <<up, extVars, health, session, cliVars, tools, identity, stdioLoop, latest>>

\* the operation returns
Return ==
    /\ pc = "done"
    /\ pc' = "idle"
    /\ last' = NoObs
    /\ UNCHANGED <<up, extVars, health, session, cliVars, tools, identity, stdioLoop, latest>>

\* the tool outcomes that matter for a message: Execute runs only in tools/call
ExecFor(raw) ==
    IF raw.method = JsonStr(RequestTypeCallTool) THEN ExecOutcomes ELSE {"ok"}

\* an operation takes an input only when the model is idle
Inputs(S) == IF pc = "idle" THEN S ELSE {}

Next ==
    \/ \E raw \in Inputs(RawMessages) : \E exec \in ExecFor(raw) : \E w \in WriteOutcomes :
          StdioLine(raw, exec, w)
    \/ StdioEOF
    \/ StartStdio
    \/ \E raw \in Inputs(RawMessages) : \E exec \in ExecFor(raw) : HTTPRequest(raw, exec)
    \/ \E tool \in Inputs(RegisterInputs) : RegisterTool(tool)
    \/ CloseRegistry
    \/ \E msg \in Inputs(FactoryEnvelopes) : BuildEnvelope(msg)
    \/ Return

Spec == Init /\ [][Next]_vars

\* the request transport: dispatch requests, the registry changing under
\* them, and the liveness endpoint served concurrently
NextHTTP ==
    \/ \E raw \in Inputs(RawMessages) : \E exec \in ExecFor(raw) : HTTPRequest(raw, exec)
    \/ \E tool \in Inputs(RegisterInputs) : RegisterTool(tool)
    \/ CloseRegistry
    \/ Return
    \/ \E method \in HealthMethods : HealthRequest(method)
    \/ HealthDone

SpecHTTP == Init /\ [][NextHTTP]_vars

(***************************************************************************)
(* One run of StdioServer.Start, step by step: the select at the top of    *)
(* the loop, Scan, handleMessage (with a tool that takes time), the write  *)
(* of the response, and the return of Start up to the exit of the process. *)
(***************************************************************************)
\* the lines of a session: empty, undecodable, a method that is not a
\* string, an unknown method, missing and malformed params, a tool that may
\* fail, an unknown tool, and well-formed requests; with and without an id
SessionLines ==
    {EmptyLine, Garbage}
    \cup {RawOf("object", id, mp[1], mp[2]) : id \in {Absent, JsonNum(1)}, mp \in
            {<<JsonNum(5), NoParams>>,
             <<JsonStr("resources/list"), NoParams>>,
             <<JsonStr(RequestTypeListTools), NoParams>>,
             <<JsonStr(RequestTypeCallTool), NoParams>>,
             <<JsonStr(RequestTypeCallTool), ParamsOf("str", "", "", "", "")>>,
             <<JsonStr(RequestTypeCallTool), ParamsOf("obj", "", "", "", "list_devices")>>,
             <<JsonStr(RequestTypeCallTool), ParamsOf("obj", "", "", "", "no_such_tool")>>,
             <<JsonStr(RequestTypeInitialize),
               ParamsOf("obj", ProtocolVersion, "test-client", "1.0.0", "")>>,
             <<JsonStr(RequestTypeShutdown), NoParams>>}}

\* the failures of Scan: an I/O error, or a line over the 10 MiB cap
ReadErrors == {"read failed", "token too long"}

\* runServer: the exit status for what StartStdio returned; nil and
\* context.Canceled exit 0, any other error exits 1
ExitCode_AlwaysFatal(ret) == 1

ExitCode(ret) == IF ret \in {"nil", "context canceled"} THEN 0 ELSE 1

\* a loop that returns when handleMessage reports an error
AfterHandle_ReturnOnError(err) == IF err THEN "returned" ELSE "top"

\* Start after handleMessage returned err: the error is logged and the loop
\* continues
AfterHandle(err) == "top"

\* a loop that reads on while a line is being handled
CanScan_WhileHandling(s) == s.pos \in {"scan", "handle", "write"}

\* Scan is called only from the loop, after the previous handleMessage has
\* returned
CanScan(s) == s.pos = "scan"

\* Start returns ret; StartStdio passes it on and runServer exits
StartReturns(ret) ==
    session' = [session EXCEPT !.pos = "returned", !.ret = ret, !.exit = ExitCode(ret)]

\* the signal handler cancels the context, at any moment of the run
Cancel ==
    /\ session.pos # "returned"
    /\ ~session.cancelled
    /\ session' = [session EXCEPT !.cancelled = TRUE]
    /\ UNCHANGED <<up, extVars, serverVars, health, cliVars>>

\* the select at the top of the loop: ctx.Done() returns ctx.Err(),
\* otherwise the default branch goes on to Scan
Start_Select ==
    /\ session.pos = "top"
    /\ IF session.cancelled THEN StartReturns("context canceled")
       ELSE session' = [session EXCEPT !.pos = "scan"]
    /\ UNCHANGED <<up, extVars, serverVars, health, cliVars>>

\* Scan returns a line: an empty line continues, any other is handled
Start_Scan(raw) ==
    /\ CanScan(session)
    /\ session.scanned < MaxLines
    /\ session' =
          IF raw.kind = "empty"
          THEN [session EXCEPT !.pos = "top", !.scanned = @ + 1]
          ELSE [session EXCEPT !.pos = "handle", !.line = raw, !.scanned = @ + 1,
                               !.idx = @ + 1, !.elapsed = 0,
                               !.allId = @ /\ raw.kind = "object" /\ raw.id # Absent]
    /\ UNCHANGED <<up, extVars, serverVars, health, cliVars>>

\* Scan returns false with no error: end of input, Start returns nil
Start_EOF ==
    /\ session.pos = "scan"
    /\ StartReturns("nil")
    /\ UNCHANGED <<up, extVars, serverVars, health, cliVars>>

\* Scan returns false with an error: Start returns it wrapped
Start_ReadError(e) ==
    /\ session.pos = "scan"
    /\ StartReturns("stdin read error: " \o e)
    /\ UNCHANGED <<up, extVars, serverVars, health, cliVars>>

\* the tool of the line in hand is still executing
ToolRunning ==
    /\ session.pos = "handle"
    /\ session.line.kind = "object"
    /\ session.line.method = JsonStr(RequestTypeCallTool)
    /\ session.elapsed < MaxTicks
    /\ session' = [session EXCEPT !.elapsed = @ + 1]
    /\ UNCHANGED <<up, extVars, serverVars, health, cliVars>>

\* handleMessage runs up to its sendResponse or sendError
Start_Handle(exec) ==
    /\ session.pos = "handle"
    /\ LET h == Stdio_handleMessage(session.line, exec)
       IN  session' = [session EXCEPT !.pos = "write", !.exec = exec,
                                      !.pending = Marshal(h.msg)]
    /\ UNCHANGED <<up, extVars, serverVars, health, cliVars>>

\* writeMessage writes the line (or fails), handleMessage returns and Start
\* logs the error, if any
Start_Write(w) ==
    /\ session.pos = "write"
    /\ LET wr == writeMessage(NoEnv, w)
       IN  session' = [session EXCEPT !.pos = AfterHandle(~wr.ok),
                                      !.pending = NoEnv,
                                      !.attempts = @ + 1,
                                      !.werrs = IF wr.ok THEN @ ELSE @ + 1,
                                      !.out = IF wr.ok THEN Append(@, session.idx) ELSE @,
                                      !.ret = IF AfterHandle(~wr.ok) = "returned"
                                              THEN "write error" ELSE @]
    /\ UNCHANGED <<up, extVars, serverVars, health, cliVars>>

NextStdio ==
    \/ Cancel
    \/ Start_Select
    \/ \E raw \in SessionLines : Start_Scan(raw)
    \/ Start_EOF
    \/ \E e \in ReadErrors : Start_ReadError(e)
    \/ ToolRunning
    \/ \E exec \in ExecOutcomes : Start_Handle(exec)
    \/ \E w \in WriteOutcomes : Start_Write(w)

SpecStdio == Init /\ [][NextStdio]_vars

\* the loop of Start keeps running: the select is taken, a line in hand is
\* handled and its response written; whether a line, the end of the input
\* or a read error ever arrives is up to the peer
LiveSpecStdio ==
    /\ SpecStdio
    /\ WF_vars(Start_Select)
    /\ WF_vars(\E exec \in ExecOutcomes : Start_Handle(exec))
    /\ WF_vars(\E w \in WriteOutcomes : Start_Write(w))

(***************************************************************************)
(* One call of TailscaleCLI.ExecuteCommand: validation, the subprocess     *)
(* under a 30 s deadline with its output behind a limitWriter, and the     *)
(* return of cmd.Run.                                                      *)
(***************************************************************************)
\* arguments: an allowed subcommand, one that is not, a flag, one argument
\* per rejected character, and one of maxArgLen + 1 characters
Tokens ==
    {<<"s", "t", "a", "t", "u", "s">>, <<"r", "m">>, <<"-", "-", "j", "s", "o", "n">>,
     [i \in 1..(maxArgLen + 1) |-> "a"]}
    \cup {<<"x", c>> : c \in InvalidChars}
ArgLists == UNION {[1..n -> Tokens] : n \in 0..MaxArgs}

\* the chunks of a direct Write, and the chunks of output of a subprocess
Chunks == UNION {[1..n -> {"a", "b"}] : n \in 0..MaxChunk}
Output == {[i \in 1..n |-> "a"] : n \in 0..MaxChunk}

\* errors.Is(execCtx.Err(), context.DeadlineExceeded)
DeadlineExceeded(c) == c.elapsed >= timeout

\* a command context that never kills its process
MustKill_Never(c) == FALSE

\* exec.CommandContext kills the process once execCtx is done
MustKill(c) == DeadlineExceeded(c) \/ c.cancelled

\* the error of cmd.Run: the exit error of the process if it did not exit
\* with success, else the error of the copy of its output, else none
RunError(c) ==
    IF c.proc = "killed" THEN "signal: killed"
    ELSE IF c.proc = "failed" THEN "exit status 1"
    ELSE c.copyErr

TimedOutText == "command timed out after " \o ToString(timeout) \o "s"

\* ExecuteCommand up to cmd.Run: a validation error returns at once; a
\* context already cancelled makes cmd.Run fail before it starts a process
ExecuteCommand(args, env) ==
    /\ cli.pos = "idle"
    /\ LET v == Validate(args)
           executing == [msg |-> "Executing tailscale command", args |-> args]
           failed == [msg |-> "CLI command failed", command |-> args[1], args |-> args,
                      error |-> "context canceled"]
       IN  IF v # NoError
           THEN /\ cli' = [cli EXCEPT !.pos = "returned", !.args = args, !.err = v]
                /\ UNCHANGED lw
           ELSE IF cli.cancelled
           THEN /\ cli' = [cli EXCEPT !.pos = "returned", !.args = args, !.env = env,
                                      !.logged = <<executing, failed>>,
                                      !.err = CLIError(args, "context canceled")]
                /\ UNCHANGED lw
           ELSE /\ cli' = [cli EXCEPT !.pos = "running", !.args = args, !.env = env,
                                      !.logged = <<executing>>,
                                      !.proc = "running", !.spawned = @ + 1]
                /\ lw' = newLimitWriter(maxBufSize)
    /\ UNCHANGED <<extVars, serverVars, health, session, lwRet>>

\* the subprocess writes a chunk: it is copied into the limitWriter of
\* cmd.Stdout; the copy stops at the first error
ProcWrites(p) ==
    /\ cli.pos = "running"
    /\ cli.proc = "running"
    /\ cli.copyErr = ""
    /\ LET r == limitWriter_Write(lw, p)
       IN  /\ lw' = r.l
           /\ cli' = [cli EXCEPT !.copyErr = r.err]
    /\ UNCHANGED <<up, extVars, serverVars, health, session, lwRet>>

\* the subprocess exits by itself, with success or not
ProcExits(ok) ==
    /\ cli.proc = "running"
    /\ cli' = [cli EXCEPT !.proc = IF ok THEN "exited" ELSE "failed"]
    /\ UNCHANGED <<up, extVars, serverVars, health, session, lw, lwRet>>

\* time passes while the call is in progress
Tick ==
    /\ cli.pos = "running"
    /\ cli.elapsed < timeout
    /\ cli' = [cli EXCEPT !.elapsed = @ + TickSeconds]
    /\ UNCHANGED <<up, extVars, serverVars, health, session, lw, lwRet>>

\* the caller cancels its context
CallerCancels ==
    /\ cli.pos \in {"idle", "running"}
    /\ ~cli.cancelled
    /\ cli' = [cli EXCEPT !.cancelled = TRUE]
    /\ UNCHANGED <<up, extVars, serverVars, health, session, lw, lwRet>>

\* the process is killed because execCtx is done
Kill ==
    /\ cli.pos = "running"
    /\ cli.proc = "running"
    /\ MustKill(cli)
    /\ cli' = [cli EXCEPT !.proc = "killed"]
    /\ UNCHANGED <<up, extVars, serverVars, health, session, lw, lwRet>>

\* cmd.Run returns once the process has ended; ExecuteCommand returns the
\* output, or a CLIError whose Underlying is the timeout message when the
\* deadline has passed and the error of cmd.Run otherwise
Run_Returns ==
    /\ cli.pos = "running"
    /\ cli.proc \in {"exited", "failed", "killed"}
    /\ cli' =
          IF RunError(cli) = ""
          THEN [cli EXCEPT !.pos = "returned", !.out = lw.w]
          ELSE [cli EXCEPT !.pos = "returned",
                           !.logged = Append(@, [msg |-> "CLI command failed",
                                                 command |-> cli.args[1],
                                                 args |-> cli.args,
                                                 error |-> RunError(cli)]),
                           !.err = CLIError(cli.args,
                                            IF DeadlineExceeded(cli)
                                            THEN TimedOutText ELSE RunError(cli))]
    /\ UNCHANGED <<up, extVars, serverVars, health, session, lw, lwRet>>

NextCLI ==
    \/ \E args \in ArgLists : ExecuteCommand(args, <<>>) /\ UNCHANGED up
    \/ \E p \in Output : ProcWrites(p)
    \/ \E ok \in BOOLEAN : ProcExits(ok)
    \/ Tick
    \/ CallerCancels
    \/ Kill
    \/ Run_Returns

SpecCLI == Init /\ [][NextCLI]_vars

\* time passes, the runtime kills the process of a finished context, and
\* cmd.Run returns when the process has ended
LiveSpecCLI ==
    SpecCLI /\ WF_vars(Tick) /\ WF_vars(Kill) /\ WF_vars(Run_Returns)

(***************************************************************************)
(* A sequence of messages dispatched by one server, on either transport,   *)
(* with registrations in between.  One reply is kept, with the message,    *)
(* the tool outcome and the registry it was given for; when the same       *)
(* message arrives again under the same registry its reply is compared.    *)
(***************************************************************************)
\* the params a client sends with each method: initialize with a supported
\* and with an unsupported version, tools/call with and without a name
DispatchParams(m) ==
    IF m = RequestTypeInitialize
    THEN {ParamsOf("obj", ProtocolVersion, "test-client", "1.0.0", ""),
          ParamsOf("obj", "1.0.0", "test-client", "1.0.0", "")}
    ELSE IF m = RequestTypeCallTool
    THEN {NoParams, ParamsOf("obj", "", "", "", "echo")}
    ELSE {NoParams}
DispatchMessages ==
    {Garbage}
    \cup UNION {{RawOf("object", JsonNum(1), JsonStr(m), p) : p \in DispatchParams(m)} :
                   m \in MethodNames}
DispatchTools == {ToolOf("echo", 1)}

\* StdioServer.handleMessage for a line read by Start, which then reads on;
\* or HTTPServer.handleMCPRequest for a request body
Dispatch_Message(transport, raw, exec, keep) ==
    /\ pc = "idle"
    /\ transport = "stdio" => stdioLoop = "reading"
    /\ LET h == IF transport = "stdio" THEN Stdio_handleMessage(raw, exec)
                ELSE HTTP_handleMCPRequest(raw, exec)
           reply == [data |-> Marshal(h.msg), status |-> h.status]
           key == [transport |-> transport, raw |-> raw, exec |-> exec, tools |-> tools]
           past == [inited |-> disp.inited, acked |-> disp.acked]
       IN  disp' = [inited |-> disp.inited \/ ("Initialize" \in h.calls /\ h.msg.error = Nil),
                    acked |-> disp.acked \/ ("Shutdown" \in h.calls /\ h.msg.error = Nil),
                    memo |-> IF keep /\ disp.memo = <<>>
                             THEN <<[key |-> key, reply |-> reply, past |-> past]>>
                             ELSE disp.memo,
                    again |-> IF disp.memo # <<>> /\ disp.memo[1].key = key
                              THEN <<[raw |-> raw, same |-> reply = disp.memo[1].reply,
                                      past |-> past, before |-> disp.memo[1].past]>>
                              ELSE <<>>]
    /\ stdioLoop' = stdioLoop
    /\ UNCHANGED <<tools, identity, pc, last, latest, health, session, cliVars, up, httpd,
                   snap, reg, stream, srv>>

NextDispatch ==
    \/ \E transport \in {"stdio", "http"} : \E raw \in Inputs(DispatchMessages) :
          \E exec \in ExecFor(raw) : \E keep \in BOOLEAN :
             Dispatch_Message(transport, raw, exec, keep)
    \/ \E tool \in Inputs(DispatchTools) : RegisterTool(tool)
    \/ CloseRegistry
    \/ Return

SpecDispatch == Init /\ [][NextDispatch]_vars

(***************************************************************************)
(* Goroutines calling StartStdio, StartHTTP, Shutdown and IsRunning on one *)
(* TailscaleMCPServer.  Each section under s.mu is one step.               *)
(***************************************************************************)
\* StartStdio or StartHTTP up to s.mu.Unlock(): refused if running, else
\* running is set
Server_Start(p, mode) ==
    /\ srv.starts[p].pos = "idle"
    /\ srv' = IF srv.running
              THEN [srv EXCEPT !.starts[p] = [pos |-> "refused", mode |-> mode,
                                              err |-> "server is already running"]]
              ELSE [srv EXCEPT !.running = TRUE,
                               !.starts[p] = [pos |-> "accepted", mode |-> mode, err |-> ""]]
    /\ UNCHANGED <<serverVars, health, session, cliVars, up, httpd, snap, reg, stream, disp>>

\* NewStdioServer or NewHTTPServer, and server.Start begins to serve
Server_Serve(p) ==
    /\ srv.starts[p].pos = "accepted"
    /\ srv' = [srv EXCEPT !.starts[p].pos = "serving"]
    /\ UNCHANGED <<serverVars, health, session, cliVars, up, httpd, snap, reg, stream, disp>>

\* server.Start returns: its context is cancelled or its input has ended
Server_Stop(p) ==
    /\ srv.starts[p].pos = "serving"
    /\ srv' = [srv EXCEPT !.starts[p].pos = "stopped"]
    /\ UNCHANGED <<serverVars, health, session, cliVars, up, httpd, snap, reg, stream, disp>>

\* the call returns; an accepted call first runs its deferred function,
\* which clears running
Server_Return(p) ==
    /\ srv.starts[p].pos \in {"refused", "stopped"}
    /\ srv' = [srv EXCEPT !.running = IF srv.starts[p].pos = "stopped" THEN FALSE ELSE @,
                          !.starts[p] = NewServer.starts[p]]
    /\ UNCHANGED <<serverVars, health, session, cliVars, up, httpd, snap, reg, stream, disp>>

\* TailscaleMCPServer.Shutdown: nothing if not running; else the shutdown
\* hook, registry.Close, and running is cleared
Server_Shutdown ==
    /\ srv.running
    /\ Shutdown(NoParams).err = Nil
    /\ srv' = [srv EXCEPT !.running = FALSE]
    /\ tools' = Close(tools)
    /\ latest' = EmptyMap
    /\ UNCHANGED <<identity, stdioLoop, pc, last, health, session, cliVars, up, httpd, snap,
                   reg, stream, disp>>

\* IsRunning: what it returns, next to whether a call of StartStdio or
\* StartHTTP that was accepted has yet to return
Server_IsRunning ==
    /\ srv' = [srv EXCEPT !.seen =
                  <<[running |-> srv.running,
                     live |-> \E p \in 1..MaxStarts :
                                 srv.starts[p].pos \in {"accepted", "serving", "stopped"}]>>]
    /\ UNCHANGED <<serverVars, health, session, cliVars, up, httpd, snap, reg, stream, disp>>

NextServer ==
    \/ \E p \in 1..MaxStarts :
          \/ \E mode \in {"stdio", "http"} : Server_Start(p, mode)
          \/ Server_Serve(p)
          \/ Server_Stop(p)
          \/ Server_Return(p)
    \/ Server_Shutdown
    \/ Server_IsRunning

SpecServer == Init /\ [][NextServer]_vars

(***************************************************************************)
(* Tasks calling StdioServer.writeMessage at the same time, each with one  *)
(* message.  A byte of the output is kept with the task that wrote it; a   *)
(* Write puts its bytes on the stream one by one and can fail at any of    *)
(* them.                                                                   *)
(***************************************************************************)
\* json.Marshal of the message of a task, in bytes
Body == <<"{", "}">>

\* a mutex that is never held
MutexFree_Always(mu) == TRUE

\* sync.Mutex: Lock waits until the mutex is free
MutexFree(mu) == mu = 0

writeMessage_Call(p) ==
    /\ stream.tasks[p].pos = "idle"
    /\ stream' = [stream EXCEPT !.tasks[p].pos = "called"]
    /\ UNCHANGED <<serverVars, health, session, cliVars, up, httpd, snap, reg, srv, disp>>

\* s.mu.Lock()
writeMessage_Lock(p) ==
    /\ stream.tasks[p].pos = "called"
    /\ MutexFree(stream.mu)
    /\ stream' = [stream EXCEPT !.mu = p, !.tasks[p].pos = "body"]
    /\ UNCHANGED <<serverVars, health, session, cliVars, up, httpd, snap, reg, srv, disp>>

\* s.writer.Write(data): the next byte of the body reaches the stream, or
\* the Write fails with what it has written so far
writeMessage_Body(p, w) ==
    /\ stream.tasks[p].pos = "body"
    /\ LET n == stream.tasks[p].n
       IN  stream' =
              IF w = "fail"
              THEN [stream EXCEPT !.tasks[p].pos = "failed", !.tasks[p].err = "write error"]
              ELSE [stream EXCEPT !.out = Append(@, [by |-> p, byte |-> Body[n + 1]]),
                                  !.tasks[p].n = n + 1,
                                  !.tasks[p].pos = IF n + 1 = Len(Body) THEN "newline" ELSE "body"]
    /\ UNCHANGED <<serverVars, health, session, cliVars, up, httpd, snap, reg, srv, disp>>

\* s.writer.Write([]byte("\n"))
writeMessage_Newline(p, w) ==
    /\ stream.tasks[p].pos = "newline"
    /\ stream' =
          IF w = "fail"
          THEN [stream EXCEPT !.tasks[p].pos = "failed",
                              !.tasks[p].err = "write newline error"]
          ELSE [stream EXCEPT !.out = Append(@, [by |-> p, byte |-> "\n"]),
                              !.tasks[p].pos = "written"]
    /\ UNCHANGED <<serverVars, health, session, cliVars, up, httpd, snap, reg, srv, disp>>

\* the deferred s.mu.Unlock(); writeMessage returns
writeMessage_Unlock(p) ==
    /\ stream.tasks[p].pos \in {"written", "failed"}
    /\ stream' = [stream EXCEPT !.mu = IF @ = p THEN 0 ELSE @,
                                !.tasks[p].pos = "returned"]
    /\ UNCHANGED <<serverVars, health, session, cliVars, up, httpd, snap, reg, srv, disp>>

NextWrite ==
    \E p \in 1..MaxWriters :
        \/ writeMessage_Call(p)
        \/ writeMessage_Lock(p)
        \/ \E w \in WriteOutcomes : writeMessage_Body(p, w)
        \/ \E w \in WriteOutcomes : writeMessage_Newline(p, w)
        \/ writeMessage_Unlock(p)

SpecWrite == Init /\ [][NextWrite]_vars

(***************************************************************************)
(* Goroutines calling the methods of one ToolRegistry at the same time.    *)
(* Each method takes r.mu, touches r.tools and releases r.mu; the store    *)
(* into the map takes two steps, and the map is torn in between.           *)
(***************************************************************************)
\* the calls: the methods that write r.tools, the methods that read it
RegistryCalls ==
    {[op |-> "Register", tool |-> t, name |-> ""] :
        t \in {ToolOf("echo", 1), ToolOf("list_devices", 2)}}
    \cup {[op |-> "Close", tool |-> NilTool, name |-> ""]}
    \cup {[op |-> o, tool |-> NilTool, name |-> "echo"] : o \in {"GetTool", "ExecuteTool"}}
    \cup {[op |-> o, tool |-> NilTool, name |-> ""] :
             o \in {"GetTools", "ListToolNames", "Count"}}

\* sync.RWMutex: Lock waits for the writer and the readers to be gone
CanLock(r) == r.writer = 0 /\ r.readers = {}

\* a read lock handed out whoever holds the mutex
CanRLock_Always(r) == TRUE

\* sync.RWMutex: RLock waits for the writer to be gone
CanRLock(r) == r.writer = 0

\* what a method reads from r.tools
ReadResult(c, m) ==
    CASE c.op \in {"GetTool", "ExecuteTool"} -> GetTool(m, c.name)
      [] c.op = "GetTools" -> GetTools(m)
      [] c.op = "ListToolNames" -> ListToolNames(m)
      [] c.op = "Count" -> Count(m)

\* r.tools after the write of a method
WriteResult(c, m) == IF c.op = "Register" THEN Register(m, c.tool).tools ELSE Close(m)

\* a goroutine calls a method
Call(p, c) ==
    /\ reg.callers[p].pos = "idle"
    /\ reg' = [reg EXCEPT !.callers[p] =
                  [pos |-> "called", op |-> c.op, tool |-> c.tool, name |-> c.name]]
    /\ UNCHANGED <<serverVars, health, session, cliVars, up, httpd, snap, stream, srv, disp>>

\* r.mu.Lock() in Register and Close, r.mu.RLock() in the other methods
Acquire(p) ==
    /\ reg.callers[p].pos = "called"
    /\ IF reg.callers[p].op \in {"Register", "Close"}
       THEN /\ CanLock(reg)
            /\ reg' = [reg EXCEPT !.writer = p, !.callers[p].pos = "locked"]
       ELSE /\ CanRLock(reg)
            /\ reg' = [reg EXCEPT !.readers = @ \cup {p}, !.callers[p].pos = "rlocked"]
    /\ UNCHANGED <<serverVars, health, session, cliVars, up, httpd, snap, stream, srv, disp>>

\* the store into r.tools begins
Write_Begin(p) ==
    /\ reg.callers[p].pos = "locked"
    /\ reg' = [reg EXCEPT !.torn = TRUE, !.callers[p].pos = "writing"]
    /\ UNCHANGED <<serverVars, health, session, cliVars, up, httpd, snap, stream, srv, disp>>

\* the store into r.tools is complete
Write_End(p) ==
    /\ reg.callers[p].pos = "writing"
    /\ reg' = [reg EXCEPT !.torn = FALSE, !.m = WriteResult(reg.callers[p], @),
                          !.callers[p].pos = "written"]
    /\ UNCHANGED <<serverVars, health, session, cliVars, up, httpd, snap, stream, srv, disp>>

\* the method reads r.tools
Read(p) ==
    /\ reg.callers[p].pos = "rlocked"
    /\ reg' = [reg EXCEPT !.callers[p] =
                  [pos |-> "read", torn |-> reg.torn, val |-> ReadResult(@, reg.m)] @@ @]
    /\ UNCHANGED <<serverVars, health, session, cliVars, up, httpd, snap, stream, srv, disp>>

\* the deferred Unlock or RUnlock; ExecuteTool goes on to run the tool it
\* found with the mutex released
Release(p) ==
    /\ reg.callers[p].pos \in {"written", "read"}
    /\ reg' = [reg EXCEPT !.writer = IF @ = p THEN 0 ELSE @,
                          !.readers = @ \ {p},
                          !.callers[p] =
                              IF @.op = "ExecuteTool" /\ @.val.ok
                              THEN [NoCallers.callers[p] EXCEPT !.pos = "executing"]
                              ELSE NoCallers.callers[p]]
    /\ UNCHANGED <<serverVars, health, session, cliVars, up, httpd, snap, stream, srv, disp>>

\* tool.Execute returns
Execute_Returns(p) ==
    /\ reg.callers[p].pos = "executing"
    /\ reg' = [reg EXCEPT !.callers[p] = NoCallers.callers[p]]
    /\ UNCHANGED <<serverVars, health, session, cliVars, up, httpd, snap, stream, srv, disp>>

NextRegistry ==
    \E p \in 1..MaxCallers :
        \/ \E c \in RegistryCalls : Call(p, c)
        \/ Acquire(p)
        \/ Write_Begin(p)
        \/ Write_End(p)
        \/ Read(p)
        \/ Release(p)
        \/ Execute_Returns(p)

SpecRegistry == Init /\ [][NextRegistry]_vars

(***************************************************************************)
(* A caller of GetTools or ListToolNames that edits the collection it was  *)
(* given while the registry goes on being written to.                      *)
(***************************************************************************)
\* what the collection holds: a map that is r.tools holds what r.tools holds
Content(v) == IF v.alias THEN tools ELSE v.m

\* the tools a caller puts into its map: registered names or not, any revision
CallerTools == {ToolOf(nm, rev) : nm \in ToolNames \cup {"mine"}, rev \in 1..MaxRevisions}

Call_GetTools ==
    /\ snap.kind = "none"
    /\ snap' = [Returned(tools) @@ NoSnapshot EXCEPT !.at = tools]
    /\ UNCHANGED <<serverVars, health, session, cliVars, up, httpd, reg, stream, srv, disp>>

\* the slice of names is kept as the map of the names to themselves
Call_ListToolNames ==
    /\ snap.kind = "none"
    /\ snap' = [NoSnapshot EXCEPT !.kind = "names", !.at = tools,
                                  !.m = [n \in ListToolNames(tools) |-> ToolOf(n, 0)]]
    /\ UNCHANGED <<serverVars, health, session, cliVars, up, httpd, reg, stream, srv, disp>>

\* the caller stores into its collection: a new entry, or over an old one
Caller_Put(tool) ==
    /\ snap.kind # "none"
    /\ snap.edits < MaxEdits
    /\ LET t == IF snap.kind = "names" THEN ToolOf(tool.name, 0) ELSE tool
           m == MapPut(Content(snap), t.name, t)
       IN  /\ snap' = [snap EXCEPT !.m = IF snap.alias THEN @ ELSE m, !.edits = @ + 1]
           /\ tools' = IF snap.alias THEN m ELSE tools
    /\ UNCHANGED <<identity, stdioLoop, pc, last, latest, health, session, cliVars, up, httpd, reg, stream, srv, disp>>

\* the caller removes an entry of its collection
Caller_Delete(name) ==
    /\ snap.kind # "none"
    /\ snap.edits < MaxEdits
    /\ name \in DOMAIN Content(snap)
    /\ LET m == [n \in DOMAIN Content(snap) \ {name} |-> Content(snap)[n]]
       IN  /\ snap' = [snap EXCEPT !.m = IF snap.alias THEN @ ELSE m, !.edits = @ + 1]
           /\ tools' = IF snap.alias THEN m ELSE tools
    /\ UNCHANGED <<identity, stdioLoop, pc, last, latest, health, session, cliVars, up, httpd, reg, stream, srv, disp>>

NextSnapshot ==
    \/ Call_GetTools
    \/ Call_ListToolNames
    \/ \E tool \in CallerTools : Caller_Put(tool)
    \/ \E name \in ToolNames \cup {"mine"} : Caller_Delete(name)
    \/ \E tool \in Inputs(RegisterInputs) : RegisterTool(tool)
    \/ CloseRegistry
    \/ Return

SpecSnapshot == Init /\ [][NextSnapshot]_vars

(***************************************************************************)
(* The serve command in HTTP mode: the flags, HTTPServer.Start with its    *)
(* listener and its connections, the signal, and the exit of the process.  *)
(***************************************************************************)
\* the grace period of httpServer.Shutdown, in seconds
shutdownGrace == 30

\* serveCmd.PreRunE: the error of the flags, or ""
PreRunE(mode, port) ==
    IF mode \notin {"stdio", "http"} THEN "invalid server mode: must be 'stdio' or 'http'"
    ELSE IF mode = "http" /\ (port < 1 \/ port > 65535)
    THEN "invalid port: must be between 1 and 65535"
    ELSE ""

\* the command is run: rejected flags end the process with status 1, else
\* runServer calls StartHTTP, which starts ListenAndServe and waits
Serve(mode, port) ==
    /\ httpd.pos = "new"
    /\ httpd' = IF PreRunE(mode, port) # ""
                THEN [httpd EXCEPT !.pos = "exited", !.ret = PreRunE(mode, port), !.exit = 1]
                ELSE [httpd EXCEPT !.pos = "serving"]
    /\ UNCHANGED <<serverVars, health, session, cliVars, up, snap, reg, stream, srv, disp>>

\* ListenAndServe binds the port, or fails and puts its error in errChan
ListenAndServe(ok) ==
    /\ httpd.pos = "serving"
    /\ httpd.listen = "none"
    /\ httpd' = [httpd EXCEPT !.listen = IF ok THEN "ok" ELSE "failed"]
    /\ UNCHANGED <<serverVars, health, session, cliVars, up, snap, reg, stream, srv, disp>>

\* SIGINT or SIGTERM: the signal goroutine cancels ctx
Signal ==
    /\ httpd.pos = "serving"
    /\ ~httpd.signalled
    /\ httpd' = [httpd EXCEPT !.signalled = TRUE]
    /\ UNCHANGED <<serverVars, health, session, cliVars, up, snap, reg, stream, srv, disp>>

\* the listener accepts a connection and a call begins
Accept ==
    /\ httpd.pos = "serving"
    /\ httpd.listen = "ok"
    /\ httpd.inflight < MaxInflight
    /\ httpd' = [httpd EXCEPT !.inflight = @ + 1]
    /\ UNCHANGED <<serverVars, health, session, cliVars, up, snap, reg, stream, srv, disp>>

\* a call in flight completes and its connection becomes idle
Complete ==
    /\ httpd.pos \in {"serving", "shutdown"}
    /\ httpd.inflight > 0
    /\ httpd' = [httpd EXCEPT !.inflight = @ - 1]
    /\ UNCHANGED <<serverVars, health, session, cliVars, up, snap, reg, stream, srv, disp>>

\* Start takes the ctx.Done() case: httpServer.Shutdown closes the listener
\* and waits under a context of shutdownGrace seconds
Start_Done ==
    /\ httpd.pos = "serving"
    /\ httpd.signalled
    /\ httpd' = [httpd EXCEPT !.pos = "shutdown", !.shutdown = TRUE,
                             !.listen = IF @ = "ok" THEN "closed" ELSE @]
    /\ UNCHANGED <<serverVars, health, session, cliVars, up, snap, reg, stream, srv, disp>>

\* Start takes the errChan case and returns the error of ListenAndServe
Start_errChan ==
    /\ httpd.pos = "serving"
    /\ httpd.listen = "failed"
    /\ httpd' = [httpd EXCEPT !.pos = "returned", !.ret = "listen: address already in use"]
    /\ UNCHANGED <<serverVars, health, session, cliVars, up, snap, reg, stream, srv, disp>>

\* time passes during httpServer.Shutdown
GraceTick ==
    /\ httpd.pos = "shutdown"
    /\ httpd.grace < shutdownGrace
    /\ httpd' = [httpd EXCEPT !.grace = @ + TickSeconds]
    /\ UNCHANGED <<serverVars, health, session, cliVars, up, snap, reg, stream, srv, disp>>

\* httpServer.Shutdown returns nil once no call is in flight, and the error
\* of its context once the grace period is over; it closes no connection
\* that is in use.  Start returns ctx.Err() after nil, the error otherwise
Shutdown_Returns ==
    /\ httpd.pos = "shutdown"
    /\ httpd.inflight = 0 \/ httpd.grace >= shutdownGrace
    /\ httpd' = [httpd EXCEPT !.pos = "returned",
                             !.ret = IF httpd.inflight = 0 THEN "context canceled"
                                     ELSE "context deadline exceeded"]
    /\ UNCHANGED <<serverVars, health, session, cliVars, up, snap, reg, stream, srv, disp>>

\* runServer maps the error of StartHTTP to the exit status
Exit ==
    /\ httpd.pos = "returned"
    /\ httpd' = [httpd EXCEPT !.pos = "exited", !.exit = ExitCode(httpd.ret)]
    /\ UNCHANGED <<serverVars, health, session, cliVars, up, snap, reg, stream, srv, disp>>

NextServe ==
    \/ \E mode \in {"http", "both"}, port \in {0, 8080, 65536} : Serve(mode, port)
    \/ \E ok \in BOOLEAN : ListenAndServe(ok)
    \/ Signal
    \/ Accept
    \/ Complete
    \/ Start_Done
    \/ Start_errChan
    \/ GraceTick
    \/ Shutdown_Returns
    \/ Exit

SpecServe == Init /\ [][NextServe]_vars

(***************************************************************************)
(* ExecuteCommand on lists long enough to hold, after the subcommand, an   *)
(* argument that is too long and an argument with a rejected character.    *)
(***************************************************************************)
OrderArgLists ==
    UNION {[1..n -> {<<"s", "t", "a", "t", "u", "s">>, <<"r", "m">>, <<"x", ";">>,
                     [i \in 1..(maxArgLen + 1) |-> "a"],
                     [i \in 1..(maxArgLen + 1) |-> IF i = 1 THEN "$" ELSE "a"]}] :
           n \in 0..(MaxArgs + 1)}

NextValidate ==
    \/ \E args \in OrderArgLists : ExecuteCommand(args, <<>>) /\ UNCHANGED up
    \/ \E ok \in BOOLEAN : ProcExits(ok)
    \/ Tick
    \/ Kill
    \/ Run_Returns

SpecValidate == Init /\ [][NextValidate]_vars

(***************************************************************************)
(* Two calls of TailscaleCLI.Up, one after the other, each through         *)
(* ExecuteCommand and its subprocess.                                      *)
(***************************************************************************)
\* auth keys: none, two that pass validateStringInput, one that does not
UpOptions ==
    [LoginServer : {<<>>}, AcceptRoutes : BOOLEAN, AcceptDNS : {FALSE},
     Hostname : {<<>>, <<"h">>, <<"h", ";">>},
     AuthKey : {<<>>, <<"k", "1">>, <<"k", "2">>, <<"k", ";">>}]

\* Up is called: it returns the error of a rejected option, or goes on
\* into ExecuteCommand with its arguments and its environment entries
Up_Call(options) ==
    /\ up.pos = "idle"
    /\ LET u == Up(options)
       IN  IF u.err # NoError
           THEN /\ up' = [up EXCEPT !.pos = "returned", !.options = options,
                                    !.err = u.err]
                /\ UNCHANGED <<cliVars, extVars, serverVars, health, session>>
           ELSE /\ up' = [up EXCEPT !.pos = "executing", !.options = options,
                                    !.logged = u.logged]
                /\ ExecuteCommand(u.args, u.env)

\* what a call of Up that has returned did
UpRecord ==
    [options |-> up.options, executed |-> up.pos = "executing", args |-> cli.args,
     env |-> cli.env, logged |-> up.logged \o cli.logged,
     err |-> IF up.pos = "executing" THEN cli.err ELSE up.err]

\* the first call has returned and the caller is about to call Up again
Up_Again ==
    /\ up.prev = <<>>
    /\ up.pos = "returned" \/ (up.pos = "executing" /\ cli.pos = "returned")
    /\ up' = [NoUp EXCEPT !.prev = <<UpRecord>>]
    /\ cli' = NoCommand
    /\ UNCHANGED <<lw, lwRet, extVars, serverVars, health, session>>

NextUp ==
    \/ \E options \in UpOptions : Up_Call(options)
    \/ \E ok \in BOOLEAN : ProcExits(ok)
    \/ Run_Returns
    \/ Up_Again

SpecUp == Init /\ [][NextUp]_vars

(***************************************************************************)
(* A limitWriter of any limit written to directly, and the limitWriter of  *)
(* a command written to by its subprocess.                                 *)
(***************************************************************************)
InitLimitWriter ==
    /\ ServerInit
    /\ cli = NoCommand
    /\ lw \in {newLimitWriter(L) : L \in 0..MaxLimit}
    /\ lwRet = NoWrite

Write(p) ==
    /\ cli.pos = "idle"
    /\ LET r == limitWriter_Write(lw, p)
       IN  /\ lw' = r.l
           /\ lwRet' = [p |-> p, n |-> r.n, err |-> r.err, before |-> lw,
                        calls |-> IF lwRet.calls < 2 THEN lwRet.calls + 1 ELSE 2]
    /\ UNCHANGED <<up, extVars, serverVars, health, session, cli>>

\* a command is run with writers of its own, here before any direct Write
NextLimitWriter ==
    \/ \E p \in Chunks : Write(p)
    \/ \E t \in Tokens : lwRet = NoWrite /\ ExecuteCommand(<<t>>, <<>>) /\ UNCHANGED up
    \/ \E p \in Output : ProcWrites(p)
    \/ \E ok \in BOOLEAN : ProcExits(ok)
    \/ Tick
    \/ CallerCancels
    \/ Kill
    \/ Run_Returns

SpecLimitWriter == InitLimitWriter /\ [][NextLimitWriter]_vars

(***************************************************************************)
(* Properties.  They read `last`, the record of the operation that has     *)
(* just completed.                                                         *)
(***************************************************************************)
\* a transport has just taken a line or a body
Dispatch == last.op \in {"stdio", "http"}

\* the raw message decoded into an object
Decoded == Dispatch /\ last.handled /\ last.raw.kind = "object"

\* a handler handed an envelope to the writer
Replied == Dispatch /\ last.reply # NoEnv

\* the method as the transport reads it: an absent or null member reads ""
MethodRead == IF last.raw.method.t = "str" THEN last.raw.method.s ELSE ""

\* the method member is absent, null or a string
MethodReadable == last.raw.method.t \in {"absent", "null", "str"}

KnownMethods ==
    {RequestTypeInitialize, RequestTypeListTools, RequestTypeCallTool,
     RequestTypeShutdown}

RepliedError(code) ==
    /\ Replied
    /\ "error" \in last.reply.members
    /\ "result" \notin last.reply.members
    /\ last.reply.error.code = code

RepliedResult ==
    /\ Replied
    /\ "result" \in last.reply.members
    /\ "error" \notin last.reply.members

\* the reply is under the id of the request: the same raw value, and no id
\* member when the request had none
UnderRequestId ==
    IF last.raw.id = Absent THEN "id" \notin last.reply.members
    ELSE "id" \in last.reply.members /\ last.reply.id = last.raw.id

\* C1: a decoded message without an id member (a notification) never makes
\* either transport write an outbound message.
C1_NotificationNeverAnswered ==
    (Decoded /\ last.raw.id = Absent) => ~last.sent

\* C2: every written reply to a request that carried an id carries that same
\* id, and the reply to a message that cannot be decoded is a parse error
\* whose id member is null.
C2_ReplyCarriesRequestId ==
    (Dispatch /\ last.handled /\ last.sent) =>
        /\ (last.raw.kind = "object" /\ last.raw.id # Absent) =>
              ("id" \in last.reply.members /\ last.reply.id = last.raw.id)
        /\ (last.raw.kind # "object") =>
              /\ RepliedError(ErrorCodeParseError)
              /\ "id" \in last.reply.members
              /\ last.reply.id = JsonNull

\* the half of C2 that the code keeps: the id of a decoded request is echoed
C2_DecodedIdEchoed ==
    (Decoded /\ last.raw.id # Absent) =>
        ("id" \in last.reply.members /\ last.reply.id = last.raw.id)

\* C3: every envelope built by a factory function, and every envelope a
\* transport emits, has jsonrpc "2.0" and populates exactly one of
\* {method, params}, {result}, {error}; result and error are never both set.
C3_EnvelopeExactlyOneGroup ==
    (last.op = "build" \/ Replied) =>
        /\ "jsonrpc" \in last.reply.members
        /\ last.reply.jsonrpc = "2.0"
        /\ (last.reply.members \ {"jsonrpc", "id"})
              \in {{"method", "params"}, {"result"}, {"error"}}
        /\ ~({"result", "error"} \subseteq last.reply.members)

C3_Witness ==
    /\ last.op = "stdio"
    /\ last.sent
    /\ RepliedError(ErrorCodeInvalidParams)
    /\ last.raw.id = JsonNum(1)

\* C4: every error a transport emits has a code of the fixed set and the one
\* message bound to that code.
FixedCodes == {-32700, -32600, -32601, -32602, -32603, -32000, -32001, -32002}
BoundMessage(code) ==
    CASE code = -32700 -> "Parse error"
      [] code = -32600 -> "Invalid Request"
      [] code = -32601 -> "Method not found"
      [] code = -32602 -> "Invalid params"
      [] code = -32603 -> "Internal error"
      [] code = -32000 -> "Unsupported protocol version"
      [] code = -32001 -> "Tool not found"
      [] code = -32002 -> "Tool execution failed"
      [] OTHER -> "<no such code>"

C4_ErrorCodeAndMessageFixed ==
    (Replied /\ "error" \in last.reply.members) =>
        /\ last.reply.error.code \in FixedCodes
        /\ last.reply.error.message = BoundMessage(last.reply.error.code)

C4_Witness ==
    /\ last.op = "http"
    /\ last.sent
    /\ RepliedError(ErrorCodeInvalidParams)
    /\ last.reply.error.data = Text("missing params")

\* C5: a decoded message whose method is not one of the four (an absent
\* method reading as the empty string) is answered with method-not-found
\* naming that method, and no server handler or registry operation runs.
C5_UnknownMethodNotFound ==
    (Decoded /\ MethodReadable /\ MethodRead \notin KnownMethods) =>
        /\ RepliedError(-32601)
        /\ last.reply.error.data = [method |-> MethodRead]
        /\ last.calls = {}
        /\ last.executed = {}

C5_Witness ==
    /\ last.op = "http"
    /\ last.sent
    /\ last.raw.method = JsonStr("resources/list")
    /\ RepliedError(-32601)
    /\ last.reply.error.data = [method |-> "resources/list"]

\* the initialize request just dispatched, and the members of its params
InitializeDispatched == Decoded /\ MethodReadable /\ MethodRead = RequestTypeInitialize
InitializeValid ==
    /\ last.raw.params.t = "obj"
    /\ last.raw.params.pv = ProtocolVersion
    /\ last.raw.params.cname # ""
    /\ last.raw.params.cver # ""
InitializeSucceeds ==
    /\ (RepliedResult <=> InitializeValid)
    /\ RepliedResult =>
          /\ last.reply.result.protocolVersion = ProtocolVersion
          /\ last.reply.result.serverInfo.name = identity.name
          /\ last.reply.result.serverInfo.version = identity.version

\* C6 as stated: initialize succeeds exactly when the version is the
\* supported one and the client name and version are non-empty, the result
\* carries the server identity, and an empty client name or client version
\* yields invalid-params.
C6_Original ==
    InitializeDispatched =>
        /\ InitializeSucceeds
        /\ (last.raw.params.t = "obj"
              /\ (last.raw.params.cname = "" \/ last.raw.params.cver = ""))
           => RepliedError(-32602)

\* C6 amended: as C6, except that an empty client name or client version
\* yields invalid-params only when the protocol version is the supported one
\* or empty; with any other version the reply is unsupported-protocol-version.
C6_InitializeRoundTrip ==
    InitializeDispatched =>
        /\ InitializeSucceeds
        /\ (last.raw.params.t = "obj"
              /\ (last.raw.params.cname = "" \/ last.raw.params.cver = ""))
           => IF last.raw.params.pv \in {"", ProtocolVersion}
              THEN RepliedError(-32602)
              ELSE RepliedError(-32000)

C6_Witness ==
    /\ InitializeDispatched
    /\ last.sent
    /\ RepliedResult
    /\ last.raw.id = JsonStr("req-1")
    /\ last.reply.result.serverInfo = [name |-> "custom-server", version |-> "9.9.9"]

\* C7 as stated: an initialize whose protocolVersion differs from the
\* supported one, the empty string included, is answered with
\* unsupported-protocol-version carrying both versions.
C7_Original ==
    (InitializeDispatched /\ last.raw.params.t = "obj"
        /\ last.raw.params.pv # ProtocolVersion) =>
        /\ RepliedError(-32000)
        /\ last.reply.error.data =
              [clientVersion |-> last.raw.params.pv, serverVersion |-> ProtocolVersion]

\* C7 amended: a non-empty protocolVersion that differs from the supported
\* one is answered with unsupported-protocol-version carrying both versions;
\* an empty protocolVersion is answered with invalid-params.
C7_UnsupportedVersion ==
    (InitializeDispatched /\ last.raw.params.t = "obj"
        /\ last.raw.params.pv # ProtocolVersion) =>
        IF last.raw.params.pv = ""
        THEN RepliedError(-32602)
        ELSE /\ RepliedError(-32000)
             /\ last.reply.error.data =
                   [clientVersion |-> last.raw.params.pv,
                    serverVersion |-> ProtocolVersion]

C7_Witness ==
    /\ InitializeDispatched
    /\ last.sent
    /\ last.raw.params.pv = "1.0.0"
    /\ RepliedError(-32000)
    /\ last.reply.error.data = [clientVersion |-> "1.0.0", serverVersion |-> "2024-11-05"]

\* C8: tools/list answers with one descriptor per registered name, that of
\* the latest successful registration under the name (the empty list when
\* nothing is registered), and a registration over an existing name logs
\* the override warning.
C8_ListShowsLatestRegistration ==
    /\ (Decoded /\ MethodReadable /\ MethodRead = RequestTypeListTools
            /\ last.raw.params.t # "str") =>
          /\ RepliedResult
          /\ last.reply.result.tools =
                {[name |-> n, description |-> latest[n].rev,
                  inputSchema |-> latest[n].rev] : n \in DOMAIN latest}
          /\ Cardinality(last.reply.result.tools) = Cardinality(DOMAIN latest)
    /\ (last.op = "register" /\ last.err = "") =>
          /\ last.warned = last.existed
          /\ last.tool.name \in DOMAIN tools
          /\ tools[last.tool.name] = last.tool

C8_Witness ==
    /\ Decoded
    /\ MethodRead = RequestTypeListTools
    /\ last.sent
    /\ RepliedResult
    /\ Cardinality(last.reply.result.tools) = 2
    /\ tools["list_devices"] # BuiltinTool

\* C9: a tools/call whose name is not registered is answered with
\* tool-not-found carrying that name, no tool is executed, and the line
\* transport stays in its read loop.
C9_UnknownToolNotFound ==
    (Decoded /\ MethodReadable /\ MethodRead = RequestTypeCallTool
        /\ last.raw.params.t = "obj" /\ last.raw.params.name \notin DOMAIN tools) =>
        /\ RepliedError(-32001)
        /\ last.reply.error.data = [tool |-> last.raw.params.name]
        /\ last.executed = {}
        /\ (last.op = "stdio" => stdioLoop = "reading")

C9_Witness ==
    /\ Decoded
    /\ last.op = "stdio"
    /\ last.sent
    /\ last.raw.params.name = "no_such_tool"
    /\ RepliedError(-32001)
    /\ last.reply.error.data = [tool |-> "no_such_tool"]

\* C10: a tools/call or initialize without a params member is answered with
\* invalid-params under the id of the request and reaches neither the
\* server, the registry nor a tool; the server is called only with params.
C10_MissingParamsInvalid ==
    /\ (Decoded /\ MethodReadable
            /\ MethodRead \in {RequestTypeCallTool, RequestTypeInitialize}
            /\ last.raw.params.t = "absent") =>
          /\ RepliedError(-32602)
          /\ UnderRequestId
          /\ last.calls = {}
          /\ last.executed = {}
    /\ (Dispatch /\ last.calls \cap {"CallTool", "Initialize", "GetTool"} # {}) =>
          last.raw.params.t = "obj"

C10_Witness ==
    /\ Decoded
    /\ MethodRead = RequestTypeCallTool
    /\ last.raw.params.t = "absent"
    /\ last.raw.id = JsonNum(1)
    /\ last.sent
    /\ RepliedError(-32602)
    /\ last.reply.id = JsonNum(1)

\* the tool of a tools/call was found and its Execute returned a failure
ToolFailed ==
    /\ Decoded
    /\ MethodReadable
    /\ MethodRead = RequestTypeCallTool
    /\ last.failed

\* C11: when the Execute of a registered tool fails during tools/call, the
\* reply is the tool-execution-failed error (-32002) whose data carries the
\* tool's name and the tool's own error message, never a result; the step
\* leaves the registry and the identity as they were and the line transport
\* in its read loop, so later requests are dispatched as before.
C11_ToolFailureReported ==
    /\ [](ToolFailed =>
            /\ RepliedError(-32002)
            /\ "result" \notin last.reply.members
            /\ last.reply.error.message = "Tool execution failed"
            /\ last.reply.error.data =
                  [tool |-> last.raw.params.name, error |-> ToolFailureText]
            /\ last.executed = {last.raw.params.name}
            /\ (last.op = "stdio" => stdioLoop = "reading"))
    /\ [][(last'.op \in {"stdio", "http"} /\ last'.failed) =>
            (tools' = tools /\ identity' = identity /\ stdioLoop' = stdioLoop)]_vars

C11_Witness ==
    /\ ToolFailed
    /\ last.op = "http"
    /\ last.raw.params.name = "list_devices"
    /\ RepliedError(-32002)
    /\ last.status = StatusInternalServerError
    /\ last.reply.error.data = [tool |-> "list_devices", error |-> ToolFailureText]

\* a decoded message whose method is shutdown
ShutdownDispatched == Decoded /\ MethodReadable /\ MethodRead = RequestTypeShutdown

\* the acknowledgement of a shutdown: the hook ran, and the reply is a
\* success envelope with the empty object, under the id of the request
ShutdownAcknowledged ==
    /\ last.calls = {"Shutdown"}
    /\ RepliedResult
    /\ last.reply.result = [emptyObject |-> TRUE]
    /\ UnderRequestId
    /\ (last.op = "http" => last.status = StatusOK)

\* C12 as stated: every shutdown request is acknowledged with the empty
\* success result on both transports.
C12_Original == ShutdownDispatched => ShutdownAcknowledged

\* C12: a shutdown request whose params member is absent, null or an object
\* invokes the shutdown hook and is acknowledged with a success envelope
\* whose result is the empty object, under the id of the request, on both
\* transports; a params member that is not an object is answered with
\* invalid-params and the hook is not invoked.
C12_ShutdownAcknowledged ==
    ShutdownDispatched =>
        IF last.raw.params.t = "str"
        THEN RepliedError(-32602) /\ UnderRequestId /\ last.calls = {}
        ELSE ShutdownAcknowledged

C12_Witness ==
    /\ ShutdownDispatched
    /\ last.op = "stdio"
    /\ last.sent
    /\ last.raw.id = JsonStr("req-1")
    /\ last.raw.params.t = "absent"
    /\ ShutdownAcknowledged
    /\ last.reply.id = JsonStr("req-1")

\* C16: on the dispatch endpoint the HTTP status is a function of the
\* outcome alone: 200 with a success envelope; 400 with the parse-error,
\* invalid-request and invalid-params codes; 404 with method-not-found and
\* tool-not-found; 500 with every other error code; the body is always the
\* envelope, with exactly one of result and error.
C16_StatusFollowsOutcome ==
    (last.op = "http") =>
        /\ Replied
        /\ last.sent
        /\ last.reply.jsonrpc = "2.0"
        /\ ("result" \in last.reply.members) # ("error" \in last.reply.members)
        /\ last.status =
              IF "result" \in last.reply.members THEN 200
              ELSE IF last.reply.error.code \in {-32700, -32600, -32602} THEN 400
              ELSE IF last.reply.error.code \in {-32601, -32001} THEN 404
              ELSE 500

C16_Witness ==
    /\ last.op = "http"
    /\ InitializeDispatched
    /\ RepliedError(-32000)
    /\ last.status = 500

\* C17: a GET to the liveness endpoint is answered 200 with the fixed
\* payload in every state of the server, whatever the registry holds and
\* whether or not a dispatch request is failing or executing a tool at that
\* moment, and the handler calls neither the dispatcher nor the registry;
\* serving it changes nothing of the server.
C17_HealthAlwaysOk ==
    /\ [](health = NoHealth => ENABLED HealthRequest("GET"))
    /\ [][(health = NoHealth /\ health'.served /\ health'.method = "GET") =>
            /\ health'.status = 200
            /\ health'.body = [status |-> "healthy", server |-> "tailscale-mcp-server"]
            /\ health'.calls = {}
            /\ UNCHANGED serverVars]_vars

C17_Witness ==
    /\ health.served
    /\ health.method = "GET"
    /\ health.status = 200
    /\ health.busy
    /\ last.op = "http"
    /\ last.failed

\* the ways Start returns that no input line causes
ReadErrorTexts == {"stdin read error: " \o e : e \in ReadErrors}

\* C13: in the line transport no input line makes Start return: whatever the
\* line was (undecodable, a method that is not a string, unknown method,
\* bad or missing params, a failing tool) and whether or not the write of
\* its response failed, handling it ends back at the top of the loop; Start
\* returns only from the select or from Scan, and while it reads every
\* further line is accepted and dispatched.
C13_NoLineEndsSession ==
    /\ [][(session.pos = "handle" => session'.pos \in {"handle", "write"})
          /\ (session.pos = "write" => session'.pos \in {"write", "top"})
          /\ (session.pos # "returned" /\ session'.pos = "returned" =>
                /\ session.pos \in {"top", "scan"}
                /\ session'.ret \in {"nil", "context canceled"} \cup ReadErrorTexts)]_vars
    /\ []((session.pos = "scan" /\ session.scanned < MaxLines) =>
            \A raw \in SessionLines : ENABLED Start_Scan(raw))

C13_Witness ==
    /\ session.pos = "handle"
    /\ session.idx = 2
    /\ session.attempts = 1
    /\ session.werrs = 1
    /\ session.line = Garbage

\* C14: in the line transport the responses are written in the order their
\* request lines were read: when a line is dispatched, the response of
\* every earlier line has completed its write (or failed it), however long
\* the tools took.
C14_ResponsesInReadOrder ==
    /\ \A k \in 1..(Len(session.out) - 1) : session.out[k] < session.out[k + 1]
    /\ session.pos \in {"handle", "write"} =>
          /\ session.attempts = session.idx - 1
          /\ \A k \in 1..Len(session.out) : session.out[k] < session.idx
    /\ session.pos = "handle" => session.pending = NoEnv
    /\ session.pos \in {"top", "scan", "returned"} => session.attempts = session.idx

C14_Witness ==
    /\ session.pos = "top"
    /\ session.out = <<1, 2>>
    /\ session.elapsed = MaxTicks

\* Start returned nil at the end of the input after lines that all carried
\* an id
CleanEnd ==
    /\ session.pos = "returned"
    /\ session.ret = "nil"
    /\ session.allId

\* only a read error is fatal: the process exits 1 exactly then
FatalOnlyOnReadError ==
    session.pos = "returned" =>
        /\ session.exit \in {0, 1}
        /\ (session.exit = 1) = (session.ret \in ReadErrorTexts)

\* C15 as stated: at the end of the input after N lines with an id exactly
\* N response lines have been written, Start returns nil, the exit status
\* is 0, and only a read error is fatal.
C15_Original ==
    /\ CleanEnd => (Len(session.out) = session.idx /\ session.exit = 0)
    /\ FatalOnlyOnReadError

\* C15: at the end of the input after N non-empty lines that each carry an
\* id, N responses have been handed to the writer, one response line is
\* written for each of them whose write did not fail, Start returns nil and
\* the exit status is 0; only a read error makes the exit status 1.
C15_CleanExitAtEndOfInput ==
    /\ CleanEnd =>
          /\ session.attempts = session.idx
          /\ Len(session.out) = session.idx - session.werrs
          /\ session.exit = 0
    /\ FatalOnlyOnReadError

C15_Witness ==
    /\ CleanEnd
    /\ session.idx = 1
    /\ session.line.method = JsonStr(RequestTypeListTools)
    /\ session.out = <<1>>
    /\ session.exit = 0

\* an argument that the validation rejects for its characters
HasInvalidChar(a) == \E k \in DOMAIN a : a[k] \in InvalidChars

LimitWriterKeepsLimit ==
    /\ Len(lw.w) = lw.n
    /\ lw.n <= lw.limit
    /\ (lwRet.calls > 0) =>
          LET b == lwRet.before
              p == lwRet.p
          IN  /\ lw.limit = b.limit
              /\ IF b.n + Len(p) > b.limit
                 THEN /\ lw.w = b.w \o SubSeq(p, 1, b.limit - b.n)
                      /\ Len(lw.w) = lw.limit
                      /\ lwRet.n = b.limit - b.n
                      /\ lwRet.err =
                            "output exceeds " \o ToString(b.limit) \o " bytes: short write"
                 ELSE /\ lw.w = b.w \o p
                      /\ lwRet.n = Len(p)
                      /\ lwRet.err = ""
    /\ (lwRet.err # "") => lw.n = lw.limit

\* a command whose output passed the cap has returned
OutputExceeded == cli.pos = "returned" /\ cli.spawned > 0 /\ cli.copyErr # ""

TwoKeys ==
    /\ up.prev # <<>>
    /\ up.prev[1].executed
    /\ up.pos = "executing"
    /\ up.options.AuthKey # <<>>
    /\ up.prev[1].options.AuthKey # <<>>
    /\ up.options.AuthKey # up.prev[1].options.AuthKey
    /\ [up.options EXCEPT !.AuthKey = <<>>] = [up.prev[1].options EXCEPT !.AuthKey = <<>>]

\* a log record without the error it reports
CommandLine(rec) == [f \in DOMAIN rec \ {"error"} |-> rec[f]]

\* C21: two calls of Up that differ only in the value of their auth key hand
\* the same argument list to ExecuteCommand, log the same command lines and
\* report the same Command and Args in a CLIError; the key is no argument,
\* it is in no log record, and it travels in the one TS_AUTHKEY entry of
\* the environment
C21_AuthKeyOnlyInEnvironment ==
    TwoKeys =>
        LET a == up.prev[1]
            b == UpRecord
        IN  /\ b.args = a.args
            /\ \A i \in DOMAIN a.logged \cap DOMAIN b.logged :
                  CommandLine(a.logged[i]) = CommandLine(b.logged[i])
            /\ (a.err.msg = "tailscale failed" /\ b.err.msg = "tailscale failed") =>
                  (a.err.command = b.err.command /\ a.err.args = b.err.args)
            /\ \A r \in {a, b} :
                  /\ r.env = <<UpWords.authKeyEnv \o r.options.AuthKey>>
                  /\ \A i \in DOMAIN r.args : r.args[i] # r.options.AuthKey
                  /\ \A i \in DOMAIN r.logged :
                        "args" \in DOMAIN r.logged[i] => r.logged[i].args = r.args

C21_Witness ==
    /\ TwoKeys
    /\ cli.pos = "returned"
    /\ cli.err.msg = "tailscale failed"
    /\ up.prev[1].err.msg = "tailscale failed"
    /\ Len(cli.logged) = 2
    /\ up.options.Hostname # <<>>

\* C22: in HTTP mode, once the signal has fired and Start has begun to shut
\* down, no connection is accepted any more, and the process exits with
\* status 0; status 1 is kept for rejected flags and a failed bind
C22_SignalExitsZero ==
    /\ httpd.shutdown => httpd.listen # "ok"
    /\ (httpd.pos = "exited" /\ httpd.shutdown) => httpd.exit = 0
    /\ (httpd.pos = "exited" /\ httpd.exit = 1) =>
          (httpd.ret = "listen: address already in use" \/ ~httpd.shutdown)

\* C23: Register of a nil tool or of a tool with the empty name returns an
\* error and leaves the map as it was; the registry never holds an entry
\* under the empty name, and a call that names the empty name executes no
\* tool
C23_RegisterRejectsNamelessTool ==
    /\ []("" \notin DOMAIN tools)
    /\ [][(last'.op = "register" /\ (last'.tool.nil \/ last'.tool.name = "")) =>
            (last'.err # "" /\ tools' = tools)]_vars
    /\ []((Dispatch /\ last.raw.params.name = "") => last.executed = {})

C23_Witness ==
    /\ last.op = "register"
    /\ ~last.tool.nil
    /\ last.tool.name = ""
    /\ last.err = "tool name cannot be empty"
    /\ DOMAIN tools = ToolNames

\* C24: the collection that GetTools or ListToolNames returned is a copy:
\* an edit of it by the caller leaves the registry, and so every later
\* answer of GetTool, GetTools, ListToolNames, Count and tools/list, as it
\* was, and a later Register or Close leaves the collection as it was
C24_SnapshotIsACopy ==
    [][/\ (snap'.edits # snap.edits) =>
             /\ tools' = tools
             /\ \A n \in CalledNames : GetTool(tools, n)' = GetTool(tools, n)
             /\ GetTools(tools)' = GetTools(tools)
             /\ ListToolNames(tools)' = ListToolNames(tools)
             /\ Count(tools)' = Count(tools)
             /\ ListTools(NoParams)' = ListTools(NoParams)
       /\ (snap.kind # "none" /\ last'.op \in {"register", "close"} /\ pc = "idle") =>
             Content(snap)' = Content(snap)]_vars

C24_Witness ==
    /\ snap.kind = "tools"
    /\ snap.edits = MaxEdits
    /\ last.op = "close"
    /\ tools = EmptyMap
    /\ "mine" \in DOMAIN Content(snap)
    /\ "list_devices" \notin DOMAIN Content(snap)
    /\ "list_devices" \in DOMAIN snap.at

\* the argument breaks the rule of the length; it breaks one of the two
\* rules of the arguments
TooLong(a) == Len(a) > maxArgLen
BreaksRule(a) == TooLong(a) \/ HasInvalidChar(a)

\* C25: ExecuteCommand fails an empty list with "no command specified", else
\* a subcommand outside the allow-list with "not allowed"; else the first
\* argument, in the order of the list, that is too long or holds a rejected
\* character decides: "argument too long" if it is too long, "invalid
\* characters" otherwise, with its index; a list with no such argument
\* passes
C25_ValidationOrder ==
    (cli.pos # "idle") =>
        LET a == cli.args
        IN  /\ (Len(a) = 0) => cli.err = [msg |-> "no command specified"]
            /\ (Len(a) > 0 /\ a[1] \notin allowedCommands) =>
                  cli.err = [msg |-> "command not allowed", command |-> a[1]]
            /\ (Len(a) > 0 /\ a[1] \in allowedCommands) =>
                  /\ \A i \in DOMAIN a :
                        (BreaksRule(a[i]) /\ \A j \in 1..(i - 1) : ~BreaksRule(a[j])) =>
                            cli.err =
                               IF TooLong(a[i])
                               THEN [msg |-> "argument too long", index |-> i - 1,
                                     chars |-> Len(a[i])]
                               ELSE [msg |-> "argument contains invalid characters",
                                     index |-> i - 1, arg |-> a[i]]
                  /\ (\A i \in DOMAIN a : ~BreaksRule(a[i])) =>
                        cli.err.msg \in {"", "tailscale failed"}

\* C25 as stated: the length of every argument is checked before the
\* characters of any, so a list that holds an argument that is too long
\* fails with "argument too long" wherever in the list it is
C25_Original ==
    (cli.pos # "idle" /\ Len(cli.args) > 0 /\ cli.args[1] \in allowedCommands
        /\ \E i \in DOMAIN cli.args : TooLong(cli.args[i])) =>
        cli.err.msg = "argument too long"

C25_Witness ==
    /\ cli.pos = "returned"
    /\ Len(cli.args) = 3
    /\ cli.args[1] \in allowedCommands
    /\ HasInvalidChar(cli.args[2]) /\ ~TooLong(cli.args[2])
    /\ TooLong(cli.args[3])
    /\ cli.err.msg = "argument contains invalid characters"
    /\ cli.err.index = 1

\* the goroutines between Lock and Unlock, and those between RLock and RUnlock
InWrite == {p \in 1..MaxCallers : reg.callers[p].pos \in {"locked", "writing", "written"}}
InRead == {p \in 1..MaxCallers : reg.callers[p].pos \in {"rlocked", "read"}}

\* C26: at most one goroutine is writing the map of the registry; none reads
\* it while one is writing or while the map is torn; and what a reader has
\* read is the answer of its method on the map as the last completed write
\* left it, for as long as it holds the read lock
C26_ReadersWriterExclusion ==
    /\ Cardinality(InWrite) <= 1
    /\ InWrite # {} => InRead = {}
    /\ reg.torn => InRead = {}
    /\ \A p \in InRead :
          reg.callers[p].pos = "read" =>
              /\ ~reg.callers[p].torn
              /\ reg.callers[p].val =
                    ReadResult([op |-> reg.callers[p].op, name |-> reg.callers[p].name],
                               reg.m)

\* two reads overlap, after a Register has completed, while a tool runs
C26_Witness ==
    /\ InRead = {1, 2}
    /\ reg.callers[1].pos = "read"
    /\ reg.callers[2].pos = "read"
    /\ "echo" \in DOMAIN reg.m
    /\ reg.callers[1].op = "GetTools"
    /\ reg.callers[2].op = "ExecuteTool"

\* C27: in the line transport, a line that Scan returns after the signal has
\* cancelled the context is not dispatched, and once the context is
\* cancelled Start returns, whether or not anything more arrives on the
\* input
C27_CancelStopsReading ==
    /\ [][(session.cancelled /\ session'.scanned > session.scanned) =>
            session'.pos # "handle"]_vars
    /\ (session.cancelled ~> session.pos = "returned")

\* the bytes that a task has put on the stream, in the order of the stream
RECURSIVE BytesOf(_, _)
BytesOf(p, out) ==
    IF out = <<>> THEN <<>>
    ELSE (IF Head(out).by = p THEN <<Head(out).byte>> ELSE <<>>) \o BytesOf(p, Tail(out))

\* the bytes of every task are next to each other on the stream
Contiguous ==
    \A i, j, k \in DOMAIN stream.out :
        (i < j /\ j < k /\ stream.out[i].by = stream.out[k].by) =>
            stream.out[j].by = stream.out[i].by

\* C28: under concurrent calls of writeMessage the bytes of a message are
\* never mixed with those of another, no newline is written without the
\* whole body before it, a message whose two writes succeed is on the
\* stream as its body followed at once by one newline, and a message with a
\* failed write is on the stream as the part of its body written before the
\* failure, with no newline
C28_MessagesNotInterleaved ==
    /\ Contiguous
    /\ \A p \in 1..MaxWriters :
          LET b == BytesOf(p, stream.out)
              t == stream.tasks[p]
          IN  /\ Len(b) <= Len(Body) + 1
              /\ b = SubSeq(Body \o <<"\n">>, 1, Len(b))
              /\ (t.pos = "returned" /\ t.err = "") => b = Body \o <<"\n">>
              /\ (t.pos = "returned" /\ t.err # "") => Len(b) <= Len(Body)

\* C28 as stated: every message given to writeMessage is on the stream as
\* its body followed by one newline
C28_Original ==
    /\ Contiguous
    /\ \A p \in 1..MaxWriters :
          stream.tasks[p].pos = "returned" => BytesOf(p, stream.out) = Body \o <<"\n">>

\* a task fails at its newline, another then writes its message whole
C28_Witness ==
    /\ \A p \in 1..MaxWriters : stream.tasks[p].pos = "returned"
    /\ stream.tasks[1].err = ""
    /\ stream.tasks[2].err = "write newline error"
    /\ Len(stream.out) >= 5
    /\ stream.out[1].by = 2
    /\ stream.out[3].by = 1

\* C29: on one TailscaleMCPServer at most one transport is serving; while a
\* call of StartStdio or StartHTTP that was accepted has not returned no
\* other is accepted; and IsRunning is true exactly while there is such a
\* call
C29_OneTransport ==
    LET Live == {p \in 1..MaxStarts : srv.starts[p].pos \in {"accepted", "serving", "stopped"}}
    IN  /\ Cardinality({p \in 1..MaxStarts : srv.starts[p].pos = "serving"}) <= 1
        /\ Cardinality(Live) <= 1
        /\ srv.running <=> Live # {}
        /\ srv.seen # <<>> => (srv.seen[1].running <=> srv.seen[1].live)

====
